---- MODULE Spec2Model ----
(***************************************************************************)
(* A model of the cborX codec: the CBOR encoder (cborx/encoder.py), the    *)
(* header packing helpers (cborx/packing.py) and the recursive-descent     *)
(* decoder (cborx/decoder.py).                                             *)
(*                                                                         *)
(* Python integers are unbounded, so an integer is modelled by its         *)
(* big-endian base-256 digits without leading zero (<<>> is 0) and a sign. *)
(* A byte string is a sequence of 0..255, a text string a sequence of      *)
(* code points.  A Python value is a record [t |-> type name, v |-> ...].  *)
(***************************************************************************)
EXTENDS Integers, Sequences, FiniteSets, TLC

VARIABLES
    arg,       \* what the caller passes to the operation under test
    buf,       \* the bytes of the byte source (BytesIO) / the encoder's output
    dec,       \* the CBORDecoder object: read offset of its source and its fields
    out,       \* the outcome of the last operation: the value returned or the exception raised
    yielded,   \* the values a decode_sequence generator has yielded so far
    pc         \* where the caller is

vars == <<arg, buf, dec, out, yielded, pc>>

----------------------------------------------------------------------------
(* Bounds of the model *)

\* the longest argument, in bytes, of the header arguments and integers drawn
MaxArgBytes == 8
\* header arguments 0..MaxSmall are all drawn
MaxSmall == 25
\* the longest raw input handed to the decoder
MaxInputLen == 3
\* the most top-level items concatenated for decode_sequence
MaxSeqItems == 3

----------------------------------------------------------------------------
(* Unbounded naturals as big-endian base-256 digit sequences *)

RECURSIVE NatToDigits(_)
NatToDigits(n) == IF n = 0 THEN <<>> ELSE NatToDigits(n \div 256) \o <<n % 256>>

RECURSIVE DigitsToNat(_)
\* only used on digit sequences short enough for the result to be a machine integer
DigitsToNat(s) ==
    IF s = <<>> THEN 0 ELSE DigitsToNat(SubSeq(s, 1, Len(s) - 1)) * 256 + s[Len(s)]

RECURSIVE StripZeros(_)
StripZeros(s) == IF s # <<>> /\ s[1] = 0 THEN StripZeros(Tail(s)) ELSE s

RECURSIVE Zeros(_)
Zeros(n) == IF n <= 0 THEN <<>> ELSE <<0>> \o Zeros(n - 1)

RECURSIVE SeqLess(_, _)
\* bytewise (lexicographic) order of two byte sequences, as Python compares bytes
SeqLess(a, b) ==
    IF b = <<>> THEN FALSE
    ELSE IF a = <<>> THEN TRUE
    ELSE IF a[1] # b[1] THEN a[1] < b[1]
    ELSE SeqLess(Tail(a), Tail(b))

\* a < b for two naturals given by their digits
DigitsLT(a, b) ==
    \/ Len(a) < Len(b)
    \/ Len(a) = Len(b) /\ SeqLess(a, b)

RECURSIVE DigitsInc(_)
DigitsInc(s) ==
    IF s = <<>> THEN <<1>>
    ELSE IF s[Len(s)] < 255 THEN SubSeq(s, 1, Len(s) - 1) \o <<s[Len(s)] + 1>>
    ELSE DigitsInc(SubSeq(s, 1, Len(s) - 1)) \o <<0>>

RECURSIVE DigitsDecRaw(_)
DigitsDecRaw(s) ==
    IF s[Len(s)] > 0 THEN SubSeq(s, 1, Len(s) - 1) \o <<s[Len(s)] - 1>>
    ELSE DigitsDecRaw(SubSeq(s, 1, Len(s) - 1)) \o <<255>>

\* s - 1 for s > 0
DigitsDec(s) == StripZeros(DigitsDecRaw(s))

\* the number of items a loop over range(length) can get through before the
\* source runs dry: every item takes at least one byte
Clamp(length, cap) ==
    IF Len(length) > 3 \/ DigitsToNat(length) > cap THEN cap ELSE DigitsToNat(length)

----------------------------------------------------------------------------
(* Python values *)

PyInt(neg, mag)  == [t |-> "int", v |-> [neg |-> neg, mag |-> mag]]
PyNat(n)         == PyInt(FALSE, NatToDigits(n))
PyBytes(s)       == [t |-> "bytes", v |-> s]
PyStr(s)         == [t |-> "str", v |-> s]
PyBool(b)        == [t |-> "bool", v |-> b]
PyNone           == [t |-> "NoneType", v |-> 0]
PyUndefined      == [t |-> "CBORUndefined", v |-> 0]
PyList(s)        == [t |-> "list", v |-> s]
PyTuple(s)       == [t |-> "tuple", v |-> s]
PyDict(kind, s)  == [t |-> kind, v |-> s]       \* s: the <<key, value>> pairs in insertion order
PySimple(n)      == [t |-> "CBORSimple", v |-> n]
PyTag(tag, val)  == [t |-> "CBORTag", v |-> <<tag, val>>]
PyBigNum(i)      == [t |-> "BigNum", v |-> i.v]
PyFloat(bits)    == [t |-> "float", v |-> bits]   \* the IEEE big-endian bytes as read
PyArray(typecode, items) == [t |-> "array", v |-> <<typecode, items>>]
PySet(kind, s)   == [t |-> kind, v |-> s]       \* s: the members, each once, as first met
\* A list or dict that stands in the decoder's table of shared values carries the ID
\* it stands under as its identity, [t, v, id]; PyRef(id) is another mention of that
\* same object
PyRef(id)        == [t |-> "ref", v |-> id]

DictKinds == {"dict", "OrderedDict", "FrozenDict", "FrozenOrderedDict"}
NumberKinds == {"int", "bool"}

\* the integer a bool or int stands for in a comparison (True == 1, False == 0)
AsInt(x) ==
    IF x.t = "bool" THEN (IF x.v THEN [neg |-> FALSE, mag |-> <<1>>]
                                 ELSE [neg |-> FALSE, mag |-> <<>>])
    ELSE x.v

RECURSIVE HashOf(_)
\* hash(key), as the value that decides whether two equal keys hash alike: True and 1
\* hash alike, -1 hashes as -2, a tuple hashes its elements in order, and
\* FrozenDict.__hash__ is hash((tuple(self), tuple(self.values()))), the keys and
\* the values in insertion order.  (Integers of 2^61 - 1 and more, which hash modulo
\* 2^61 - 1, stand for themselves.)
HashOf(key) ==
    IF key.t \in NumberKinds THEN
        LET i == AsInt(key)
        IN  [t |-> "int",
             v |-> IF i.neg /\ i.mag = <<1>> THEN [neg |-> TRUE, mag |-> <<2>>] ELSE i]
    ELSE IF key.t = "tuple" THEN
        [t |-> "tuple", v |-> [i \in 1..Len(key.v) |-> HashOf(key.v[i])]]
    ELSE IF key.t \in {"FrozenDict", "FrozenOrderedDict"} THEN
        [t |-> "FrozenDict",
         v |-> <<[i \in 1..Len(key.v) |-> HashOf(key.v[i][1])],
                 [i \in 1..Len(key.v) |-> HashOf(key.v[i][2])]>>]
    ELSE IF key.t = "CBORTag" THEN [t |-> "CBORTag", v |-> <<key.v[1], HashOf(key.v[2])>>]
    ELSE key

RECURSIVE PyEq(_, _)
\* Python's == on the values of the model; a mapping or a set looks the other's
\* keys up, by hash and then ==
PyEq(x, y) ==
    IF x.t \in NumberKinds /\ y.t \in NumberKinds THEN AsInt(x) = AsInt(y)
    ELSE IF x.t \in DictKinds /\ y.t \in DictKinds THEN
        /\ Len(x.v) = Len(y.v)
        /\ \A i \in 1..Len(x.v) : \E j \in 1..Len(y.v) :
              /\ PyEq(x.v[i][1], y.v[j][1]) /\ HashOf(x.v[i][1]) = HashOf(y.v[j][1])
              /\ PyEq(x.v[i][2], y.v[j][2])
    ELSE IF x.t \in {"set", "frozenset"} /\ y.t \in {"set", "frozenset"} THEN
        /\ Len(x.v) = Len(y.v)
        /\ \A i \in 1..Len(x.v) : \E j \in 1..Len(y.v) :
              PyEq(x.v[i], y.v[j]) /\ HashOf(x.v[i]) = HashOf(y.v[j])
    ELSE IF x.t # y.t THEN FALSE
    ELSE IF x.t \in {"list", "tuple"} THEN
        /\ Len(x.v) = Len(y.v)
        /\ \A i \in 1..Len(x.v) : PyEq(x.v[i], y.v[i])
    ELSE IF x.t = "CBORTag" THEN x.v[1] = y.v[1] /\ PyEq(x.v[2], y.v[2])
    ELSE x.v = y.v

----------------------------------------------------------------------------
(* cborx/packing.py: fixed-width packing *)

\* struct 'B'
pack_byte(n) == <<n>>
\* struct '>H', '>I', '>Q': the digits left-padded with zero bytes to the width
pack_be_uint16(length) == Zeros(2 - Len(length)) \o length
pack_be_uint32(length) == Zeros(4 - Len(length)) \o length
pack_be_uint64(length) == Zeros(8 - Len(length)) \o length

\* the literals compared against in length_parts / pack_cbor_length / uint_minima
Lit24    == <<24>>
Lit256   == <<1, 0>>
Lit65536 == <<1, 0, 0>>
Lit2p32  == <<1, 0, 0, 0, 0>>
Lit2p64  == <<1, 0, 0, 0, 0, 0, 0, 0, 0>>

EncOk(bytes) == [err |-> "", out |-> bytes]
EncFail(e)   == [err |-> e, out |-> <<>>]

\* pack_cbor_length(length, major): major is the shifted major value (0x40, ...)
pack_cbor_length(length, major) ==
    IF DigitsLT(length, Lit24) THEN EncOk(pack_byte(major + DigitsToNat(length)))
    ELSE IF DigitsLT(length, Lit256) THEN EncOk(pack_byte(major + 24) \o pack_byte(length[1]))
    ELSE IF DigitsLT(length, Lit65536) THEN EncOk(pack_byte(major + 25) \o pack_be_uint16(length))
    ELSE IF DigitsLT(length, Lit2p32) THEN EncOk(pack_byte(major + 26) \o pack_be_uint32(length))
    ELSE IF DigitsLT(length, Lit2p64) THEN EncOk(pack_byte(major + 27) \o pack_be_uint64(length))
    ELSE EncFail("OverflowError")

----------------------------------------------------------------------------
(* UTF-8, as str.encode() and bytes.decode() do it *)

Utf8EncodeCp(c) ==
    IF c < 128 THEN <<c>>
    ELSE IF c < 2048 THEN <<192 + (c \div 64), 128 + (c % 64)>>
    ELSE IF c < 65536 THEN <<224 + (c \div 4096), 128 + ((c \div 64) % 64), 128 + (c % 64)>>
    ELSE <<240 + (c \div 262144), 128 + ((c \div 4096) % 64),
           128 + ((c \div 64) % 64), 128 + (c % 64)>>

RECURSIVE Utf8Encode(_)
\* lone surrogates cannot be encoded: UnicodeEncodeError
Utf8Encode(s) ==
    IF s = <<>> THEN EncOk(<<>>)
    ELSE IF s[1] >= 55296 /\ s[1] <= 57343 THEN EncFail("UnicodeEncodeError")
    ELSE LET rest == Utf8Encode(Tail(s))
         IN  IF rest.err # "" THEN rest ELSE EncOk(Utf8EncodeCp(s[1]) \o rest.out)

IsCont(b) == b >= 128 /\ b <= 191

RECURSIVE Utf8Decode(_)
\* strict UTF-8: [ok, cps]; overlong forms, surrogates and values above 0x10ffff are refused
Utf8Decode(s) ==
    IF s = <<>> THEN [ok |-> TRUE, cps |-> <<>>]
    ELSE
      LET b == s[1]
          n == IF b < 128 THEN 1
               ELSE IF b >= 194 /\ b <= 223 THEN 2
               ELSE IF b >= 224 /\ b <= 239 THEN 3
               ELSE IF b >= 240 /\ b <= 244 THEN 4
               ELSE 0
          lo2 == IF b = 224 THEN 160 ELSE IF b = 240 THEN 144 ELSE 128
          hi2 == IF b = 237 THEN 159 ELSE IF b = 244 THEN 143 ELSE 191
          wellFormed ==
              /\ n > 0
              /\ Len(s) >= n
              /\ n >= 2 => (s[2] >= lo2 /\ s[2] <= hi2)
              /\ n >= 3 => IsCont(s[3])
              /\ n >= 4 => IsCont(s[4])
          cp == IF n = 1 THEN b
                ELSE IF n = 2 THEN (b - 192) * 64 + (s[2] - 128)
                ELSE IF n = 3 THEN (b - 224) * 4096 + (s[2] - 128) * 64 + (s[3] - 128)
                ELSE (b - 240) * 262144 + (s[2] - 128) * 4096 + (s[3] - 128) * 64 + (s[4] - 128)
      IN  IF ~wellFormed THEN [ok |-> FALSE, cps |-> <<>>]
          ELSE LET rest == Utf8Decode(SubSeq(s, n + 1, Len(s)))
               IN  IF rest.ok THEN [ok |-> TRUE, cps |-> <<cp>> \o rest.cps] ELSE rest

----------------------------------------------------------------------------
(* cborx/encoder.py *)

\* CBORSortMethod
LEXICOGRAPHIC == "LEXICOGRAPHIC"
LENGTH_FIRST  == "LENGTH_FIRST"
UNSORTED      == "UNSORTED"

\* how many generate_parts calls may be nested before the interpreter raises
\* RecursionError.  It stands for sys.getrecursionlimit() divided by the frames one
\* level of nesting takes; every value beyond the depth of the values drawn gives
\* the same outcomes
RecursionLimit == 6

\* CBOREncoderOptions(): the defaults of the fields the modelled encoders read, and
\* with them what a running encode() holds: the generate_parts calls it is inside of
\* (frames) and the objects with an identity they were called for (objects), and the
\* CBOREncoder's cache of the generators looked up, by type (_parts_generators)
default_encoder_options ==
    [sort_method |-> LEXICOGRAPHIC, frames |-> 0, objects |-> <<>>, parts_generators |-> <<>>]

\* default_generators, in the dict's insertion order: the key (one type or a tuple
\* of types), whether the key is a single type, and the generator's name
default_generators == <<
    [kinds |-> {"int"}, single |-> TRUE, gen |-> "int_parts"],
    [kinds |-> {"bytes", "bytearray", "memoryview"}, single |-> FALSE, gen |-> "byte_string_parts"],
    [kinds |-> {"str"}, single |-> TRUE, gen |-> "text_string_parts"],
    [kinds |-> {"tuple", "list"}, single |-> FALSE, gen |-> "sorted_list_parts"],
    [kinds |-> {"dict"}, single |-> TRUE, gen |-> "dict_parts"],
    [kinds |-> {"bool"}, single |-> TRUE, gen |-> "bool_parts"],
    [kinds |-> {"NoneType"}, single |-> TRUE, gen |-> "None_parts"],
    [kinds |-> {"float"}, single |-> TRUE, gen |-> "float_parts"],
    [kinds |-> {"set", "frozenset"}, single |-> FALSE, gen |-> "set_parts"],
    [kinds |-> {"OrderedDict"}, single |-> TRUE, gen |-> "ordered_dict_parts"] >>

\* the classes a value of type t is an instance of (its method resolution order)
Mro(t) ==
    IF t = "bool" THEN {"bool", "int"}
    ELSE IF t = "OrderedDict" THEN {"OrderedDict", "dict"}
    ELSE IF t = "namedtuple" THEN {"namedtuple", "tuple"}
    ELSE IF t \in {"defaultdict", "Counter"} THEN {t, "dict"}
    ELSE IF t = "OrderedDictSubclass" THEN {"OrderedDictSubclass", "OrderedDict", "dict"}
    ELSE {t}

\* CBOREncoder._lookup_encoder: the exact type first, then (no modelled type has
\* __cbor_parts__) the first entry the value is an instance of; "" when none
_lookup_encoder(vtype) ==
    LET exact == {i \in 1..Len(default_generators) :
                     default_generators[i].single /\ default_generators[i].kinds = {vtype}}
        inst  == {i \in 1..Len(default_generators) :
                     default_generators[i].kinds \cap Mro(vtype) # {}}
        first(S) == CHOOSE i \in S : \A j \in S : i <= j
    IN  IF exact # {} THEN default_generators[first(exact)].gen
        ELSE IF inst # {} THEN default_generators[first(inst)].gen
        ELSE ""

\* length_parts with its first comparison written length <= 24
length_parts_inclusive(length, major) ==
    IF DigitsLT(length, <<25>>) THEN EncOk(pack_byte(major + DigitsToNat(length)))
    ELSE pack_cbor_length(length, major)

\* CBOREncoder.length_parts(length, major)
length_parts(length, major) ==
    IF DigitsLT(length, Lit24) THEN EncOk(pack_byte(major + DigitsToNat(length)))
    ELSE IF DigitsLT(length, Lit256) THEN EncOk(pack_byte(major + 24) \o pack_byte(length[1]))
    ELSE IF DigitsLT(length, Lit65536) THEN EncOk(pack_byte(major + 25) \o pack_be_uint16(length))
    ELSE IF DigitsLT(length, Lit2p32) THEN EncOk(pack_byte(major + 26) \o pack_be_uint32(length))
    ELSE IF DigitsLT(length, Lit2p64) THEN EncOk(pack_byte(major + 27) \o pack_be_uint64(length))
    ELSE EncFail("OverflowError")

\* CBOREncoder.byte_string_parts
byte_string_parts(value) ==
    LET h == length_parts(NatToDigits(Len(value)), 64)
    IN  IF h.err # "" THEN h ELSE EncOk(h.out \o value)

\* int.bit_length() of a natural given by its digits
RECURSIVE BitsOf(_)
BitsOf(n) == IF n = 0 THEN 0 ELSE 1 + BitsOf(n \div 2)
bit_length(mag) == IF mag = <<>> THEN 0 ELSE 8 * (Len(mag) - 1) + BitsOf(mag[1])

\* int.to_bytes(n, 'big') for a natural that fits in n bytes
to_bytes(mag, n) == Zeros(n - Len(mag)) \o mag

\* int_parts without value = -1 - value for a negative value
int_parts_magnitude(value) ==
    LET val   == value.mag
        major == IF value.neg THEN 32 ELSE 0
        h     == length_parts(val, major)
    IN  IF h.err = "OverflowError" THEN
            LET bignum_encoding == to_bytes(val, (bit_length(val) + 7) \div 8)
                body == byte_string_parts(bignum_encoding)
            IN  IF body.err # "" THEN body
                ELSE EncOk((IF major # 0 THEN <<195>> ELSE <<194>>) \o body.out)
        ELSE h

\* CBOREncoder.int_parts: value is [neg, mag]
int_parts(value) ==
    LET val   == IF value.neg THEN DigitsDec(value.mag) ELSE value.mag
        major == IF value.neg THEN 32 ELSE 0
        h     == length_parts(val, major)
    IN  IF h.err = "OverflowError" THEN
            LET bignum_encoding == to_bytes(val, (bit_length(val) + 7) \div 8)
                body == byte_string_parts(bignum_encoding)
            IN  IF body.err # "" THEN body
                ELSE EncOk((IF major # 0 THEN <<195>> ELSE <<194>>) \o body.out)
        ELSE h

\* CBOREncoder.text_string_parts
text_string_parts(value) ==
    LET value_utf8 == Utf8Encode(value)
        h == length_parts(NatToDigits(Len(value_utf8.out)), 96)
    IN  IF value_utf8.err # "" THEN value_utf8
        ELSE IF h.err # "" THEN h
        ELSE EncOk(h.out \o value_utf8.out)

\* CBOREncoder.bool_parts, None_parts
bool_parts(value) == EncOk(IF value THEN <<245>> ELSE <<244>>)
None_parts == EncOk(<<246>>)

\* CBOREncoder.tag_parts
tag_parts(value) == length_parts(NatToDigits(value), 192)

LengthFirstLess(a, b) == Len(a) < Len(b) \/ (Len(a) = Len(b) /\ SeqLess(a, b))

\* the order sorted() uses: bytes by "lex", the key (len(item), item) by "len",
\* <<encoded key, value>> tuples with distinct first components by "pair"
SortLess(order, x, y) ==
    IF order = "lex" THEN SeqLess(x, y)
    ELSE IF order = "len" THEN LengthFirstLess(x, y)
    ELSE SeqLess(x[1], y[1])

RECURSIVE InsertSorted(_, _, _)
\* x put into the sorted sequence s, after the elements not greater than it (sorted() is stable)
InsertSorted(x, s, order) ==
    IF s = <<>> THEN <<x>>
    ELSE IF SortLess(order, x, s[1]) THEN <<x>> \o s
    ELSE <<s[1]>> \o InsertSorted(x, Tail(s), order)

RECURSIVE SortedBy(_, _)
\* sorted(s) under the order
SortedBy(s, order) ==
    IF s = <<>> THEN <<>>
    ELSE InsertSorted(s[Len(s)], SortedBy(SubSeq(s, 1, Len(s) - 1), order), order)

\* sorted_items(encoded_items_gen, method): a sequence of encoded items
sorted_items(items, method) ==
    IF method = LEXICOGRAPHIC THEN SortedBy(items, "lex")
    ELSE IF method = LENGTH_FIRST THEN SortedBy(items, "len")
    ELSE items

\* sorted_pairs returning the pairs as the dict yields them
sorted_pairs_unsorted(pairs, method) == [err |-> "", pairs |-> pairs]

\* sorted_pairs(pairs_gen, method): pairs are <<encoded key, value>>.  The keys of a
\* dict encode to distinct bytes, so sorted() never gets to compare two values.
\* Under LENGTH_FIRST sorted() calls the two-parameter lambda with the one pair:
\* TypeError, as soon as there is a pair to take a key of.
sorted_pairs(pairs, method) ==
    IF method = LEXICOGRAPHIC THEN [err |-> "", pairs |-> SortedBy(pairs, "pair")]
    ELSE IF method = LENGTH_FIRST THEN
        (IF pairs = <<>> THEN [err |-> "", pairs |-> <<>>]
         ELSE [err |-> "TypeError", pairs |-> <<>>])
    ELSE [err |-> "", pairs |-> pairs]

RECURSIVE generate_parts(_, _)
RECURSIVE EncodeEach(_, _)
RECURSIVE EncodeKeys(_, _)
RECURSIVE EmitPairs(_, _)

\* the generator expression (bjoin(generate_parts(item)) for item in value), realized:
\* [err, items]
EncodeEach(o, s) ==
    LET join(e, rest) == IF rest.err # "" THEN rest
                         ELSE [err |-> "", items |-> <<e.out>> \o rest.items]
        after(e) == IF e.err # "" THEN [err |-> e.err, items |-> <<>>]
                    ELSE join(e, EncodeEach(o, Tail(s)))
    IN  IF s = <<>> THEN [err |-> "", items |-> <<>>]
        ELSE after(generate_parts(o, s[1]))

\* pairs_gen of _sorted_dict_parts, realized: [err, pairs]
EncodeKeys(o, kv) ==
    LET join(e, rest) == IF rest.err # "" THEN rest
                         ELSE [err |-> "", pairs |-> << <<e.out, kv[1][2]>> >> \o rest.pairs]
        after(e) == IF e.err # "" THEN [err |-> e.err, pairs |-> <<>>]
                    ELSE join(e, EncodeKeys(o, Tail(kv)))
    IN  IF kv = <<>> THEN [err |-> "", pairs |-> <<>>]
        ELSE after(generate_parts(o, kv[1][1]))

\* the loop of _sorted_dict_parts: each encoded key, then the parts of its value
EmitPairs(o, pairs) ==
    LET join(e, rest) == IF rest.err # "" THEN rest
                         ELSE EncOk(pairs[1][1] \o e.out \o rest.out)
        after(e) == IF e.err # "" THEN e ELSE join(e, EmitPairs(o, Tail(pairs)))
    IN  IF pairs = <<>> THEN EncOk(<<>>)
        ELSE after(generate_parts(o, pairs[1][2]))

Flatten(items) ==
    LET RECURSIVE F(_)
        F(s) == IF s = <<>> THEN <<>> ELSE s[1] \o F(Tail(s))
    IN  F(items)

\* CBOREncoder.ordered_list_parts
ordered_list_parts(o, value) ==
    LET emit(h, items) == IF h.err # "" THEN h
                          ELSE IF items.err # "" THEN EncFail(items.err)
                          ELSE EncOk(h.out \o Flatten(items.items))
    IN  emit(length_parts(NatToDigits(Len(value)), 128), EncodeEach(o, value))

\* CBOREncoder.sorted_list_parts
sorted_list_parts(o, value) ==
    LET emit(h, encoded_items_gen) ==
            IF h.err # "" THEN h
            ELSE IF encoded_items_gen.err # "" THEN EncFail(encoded_items_gen.err)
            ELSE EncOk(h.out \o Flatten(sorted_items(encoded_items_gen.items, o.sort_method)))
    IN  emit(length_parts(NatToDigits(Len(value)), 128), EncodeEach(o, value))

\* CBOREncoder._sorted_dict_parts
_sorted_dict_parts(o, kv_pairs, sort_method) ==
    LET emit(h, body) == IF body.err # "" THEN body ELSE EncOk(h.out \o body.out)
        loop(h, sorted) == IF sorted.err # "" THEN EncFail(sorted.err)
                           ELSE emit(h, EmitPairs(o, sorted.pairs))
        sort(h, pairs_gen) == IF h.err # "" THEN h
                              ELSE IF pairs_gen.err # "" THEN EncFail(pairs_gen.err)
                              ELSE loop(h, sorted_pairs(pairs_gen.pairs, sort_method))
    IN  sort(length_parts(NatToDigits(Len(kv_pairs)), 160), EncodeKeys(o, kv_pairs))

\* CBOREncoder.dict_parts
dict_parts(o, value) == _sorted_dict_parts(o, value, o.sort_method)

\* CBOREncoder.ordered_dict_parts
ordered_dict_parts(o, value) ==
    LET emit(t, body) == IF body.err # "" THEN body ELSE EncOk(t.out \o body.out)
    IN  emit(tag_parts(272), _sorted_dict_parts(o, value, UNSORTED))

\* CBOREncoder.generate_parts: the encoder looked up for the value's type, applied
generate_parts(o, value) ==
    LET \* a PyRef is the object it refers to, one that generate_parts is inside of
        obj == IF value.t = "ref" /\ value.v \in DOMAIN o.objects THEN o.objects[value.v]
               ELSE value
        inner == [o EXCEPT !.frames = @ + 1,
                           !.objects = IF "id" \in DOMAIN obj THEN (obj.id :> obj) @@ @ ELSE @]
        gen == IF obj.t \in DOMAIN o.parts_generators THEN o.parts_generators[obj.t]
               ELSE _lookup_encoder(obj.t)
    IN  IF o.frames >= RecursionLimit THEN EncFail("RecursionError")
        ELSE IF obj.t = "ref" THEN EncFail("Unmodelled")
        ELSE IF gen = "" THEN EncFail("CBOREncodingError")
        ELSE IF gen = "int_parts" THEN int_parts(obj.v)
        ELSE IF gen = "byte_string_parts" THEN byte_string_parts(obj.v)
        ELSE IF gen = "text_string_parts" THEN text_string_parts(obj.v)
        ELSE IF gen = "sorted_list_parts" THEN sorted_list_parts(inner, obj.v)
        ELSE IF gen = "dict_parts" THEN dict_parts(inner, obj.v)
        ELSE IF gen = "bool_parts" THEN bool_parts(obj.v)
        ELSE IF gen = "None_parts" THEN None_parts
        ELSE IF gen = "ordered_dict_parts" THEN ordered_dict_parts(inner, obj.v)
        ELSE EncFail("Unmodelled")

\* CBOREncoder.encode
encode(o, value) == generate_parts(o, value)

----------------------------------------------------------------------------
(* cborx/decoder.py *)

\* DecoderFlags
IMMUTABLE      == "IMMUTABLE"
ORDERED        == "ORDERED"
RETAIN_BIGNUMS == "RETAIN_BIGNUMS"

\* DeterministicFlags
LENGTH     == "LENGTH"
FLOAT      == "FLOAT"
REALIZE_IL == "REALIZE_IL"
SORTING    == "SORTING"

\* uint_minima, indexed by kind + 1
uint_minima == <<Lit24, Lit256, Lit65536, Lit2p32>>

\* util._analyze_array_tags on the host: array(typecode).itemsize of 'B', 'H', 'I' and
\* 'Q' (and 'f', 'd') is 1, 2, 4, 8 (4, 8) on every platform CPython supports; the byte
\* order of the machine is not fixed by the code, and the decoded arrays do not
\* depend on it
is_machine_int_le == TRUE
is_machine_float_le == TRUE

\* util.typed_array_decoder_hints = _analyze_array_tags(64)[0]: for a tag number the
\* typecode, whether the tag's byte order is not the machine's (swap_bytes), and the
\* itemsize of the typecode.  Tags 64..79 are the integers, 80..87 the floats
typed_array_decoder_hints ==
    LET int_hint(tag_value) ==
            LET size == 2^(tag_value % 4)
                is_tag_le == (tag_value \div 4) % 2 = 1
                signed == (tag_value \div 8) % 2 = 1
                typecode == IF size = 1 THEN "B" ELSE IF size = 2 THEN "H"
                            ELSE IF size = 4 THEN "I" ELSE "Q"
                lower == IF size = 1 THEN "b" ELSE IF size = 2 THEN "h"
                         ELSE IF size = 4 THEN "i" ELSE "q"
            IN  [typecode |-> IF signed THEN lower ELSE typecode,
                 swap_bytes |-> (is_tag_le # is_machine_int_le) /\ size > 1,
                 itemsize |-> size]
        float_hint(tag_value) ==
            LET size == 2 * 2^(tag_value % 4)
                is_tag_le == (tag_value \div 4) % 2 = 1
            IN  [typecode |-> IF size = 4 THEN "f" ELSE "d",
                 swap_bytes |-> is_tag_le # is_machine_float_le,
                 itemsize |-> size]
        int_tags == {tag_value \in 0..15 :
                        ~((tag_value \div 4) % 2 = 1 /\ 2^(tag_value % 4) = 1)}
        float_tags == {tag_value \in 16..23 : 2 * 2^(tag_value % 4) \in {4, 8}}
    IN  [tag \in {64 + tag_value : tag_value \in int_tags \cup float_tags} |->
            IF tag < 80 THEN int_hint(tag - 64) ELSE float_hint(tag - 64)]

\* the entries of default_tag_decoders whose handlers are modelled
default_tag_decoders ==
    2 :> "decode_bignum" @@ 3 :> "decode_bignum"
    @@ 28 :> "decode_shared" @@ 29 :> "decode_shared_ref"
    @@ 258 :> "decode_set" @@ 272 :> "decode_ordered_dict"
    @@ [tag_value \in DOMAIN typed_array_decoder_hints |-> "decode_typed_array"]
\* the other tag numbers of default_tag_decoders
other_default_tags == {0, 1, 4, 5, 30, 35, 37, 260, 261}

\* CBORDecoder.__init__: the decoder object; pos is the read offset of its source,
\* pending_id is -1 for None, shared_id is what next(self._shared_id) returns
CBORDecoder(retain_bignums, check_eof, deterministic) ==
    [pos |-> 0,
     pending_id |-> -1,
     shared_id |-> 0,
     shared_ids |-> <<>>,
     flags |-> IF retain_bignums THEN {RETAIN_BIGNUMS} ELSE {},
     custom_tag_decoders |-> <<>>,
     check_eof |-> check_eof,
     deterministic |-> deterministic]

DecOk(val, d)  == [err |-> "", val |-> val, d |-> d]
DecFail(e, d)  == [err |-> e, val |-> PyNone, d |-> d]

\* self._read(n) on a BytesIO: the next n bytes, fewer at the end of the data
_read(b, d, n) ==
    LET k == IF n < Len(b) - d.pos THEN n ELSE Len(b) - d.pos
    IN  [bytes |-> SubSeq(b, d.pos + 1, d.pos + k), d |-> [d EXCEPT !.pos = @ + k]]

\* CBORDecoder.read
read(b, d, n) ==
    LET result == _read(b, d, n)
    IN  IF Len(result.bytes) = n THEN [err |-> "", bytes |-> result.bytes, d |-> result.d]
        ELSE [err |-> "UnexpectedEOFError", bytes |-> <<>>, d |-> result.d]

\* read(length) written self._read(length): a short result goes unnoticed
read_length_unchecked(b, d, length) ==
    LET result == _read(b, d, Clamp(length, Len(b) + 1))
    IN  [err |-> "", bytes |-> result.bytes, d |-> result.d]

\* read(length) for a length given by its digits: more than the source holds is EOF.
\* (BytesIO.read refuses a length of 2^63 or more with OverflowError; no input drawn
\* declares a string that long.)
read_length(b, d, length) == read(b, d, Clamp(length, Len(b) + 1))

\* uint_unpackers[kind]: big-endian unsigned
unpack_be_uint(bytes) == StripZeros(bytes)

Pow2(k) == IF k = 0 THEN 1 ELSE IF k = 1 THEN 2 ELSE IF k = 2 THEN 4 ELSE 8

\* decode_length comparing every widened argument with uint_minima[0] alone
decode_length_first_minimum(b, d, initial_byte) ==
    LET minor == initial_byte % 32
    IN  IF minor < 24 THEN [err |-> "", length |-> NatToDigits(minor), il |-> FALSE, d |-> d]
        ELSE IF minor < 28 THEN
            LET kind == minor - 24
                r == read(b, d, Pow2(kind))
                length == unpack_be_uint(r.bytes)
            IN  IF r.err # "" THEN [err |-> r.err, length |-> <<>>, il |-> FALSE, d |-> r.d]
                ELSE IF LENGTH \in d.deterministic /\ DigitsLT(length, uint_minima[1])
                     THEN [err |-> "DeterministicError", length |-> <<>>, il |-> FALSE, d |-> r.d]
                ELSE [err |-> "", length |-> length, il |-> FALSE, d |-> r.d]
        ELSE IF initial_byte \in {95, 127, 159, 191}
             THEN [err |-> "", length |-> <<>>, il |-> TRUE, d |-> d]
        ELSE [err |-> "BadInitialByteError", length |-> <<>>, il |-> FALSE, d |-> d]

\* decode_length returning -1 for low bits 31 whatever the major type
decode_length_any_major(b, d, initial_byte) ==
    LET minor == initial_byte % 32
    IN  IF minor < 24 THEN [err |-> "", length |-> NatToDigits(minor), il |-> FALSE, d |-> d]
        ELSE IF minor < 28 THEN
            LET kind == minor - 24
                r == read(b, d, Pow2(kind))
                length == unpack_be_uint(r.bytes)
            IN  IF r.err # "" THEN [err |-> r.err, length |-> <<>>, il |-> FALSE, d |-> r.d]
                ELSE IF LENGTH \in d.deterministic /\ DigitsLT(length, uint_minima[kind + 1])
                     THEN [err |-> "DeterministicError", length |-> <<>>, il |-> FALSE, d |-> r.d]
                ELSE [err |-> "", length |-> length, il |-> FALSE, d |-> r.d]
        ELSE IF minor = 31
             THEN [err |-> "", length |-> <<>>, il |-> TRUE, d |-> d]
        ELSE [err |-> "BadInitialByteError", length |-> <<>>, il |-> FALSE, d |-> d]

\* CBORDecoder.decode_length: [err, length, il, d]; il is the return value -1
decode_length(b, d, initial_byte) ==
    LET minor == initial_byte % 32
    IN  IF minor < 24 THEN [err |-> "", length |-> NatToDigits(minor), il |-> FALSE, d |-> d]
        ELSE IF minor < 28 THEN
            LET kind == minor - 24
                r == read(b, d, Pow2(kind))
                length == unpack_be_uint(r.bytes)
            IN  IF r.err # "" THEN [err |-> r.err, length |-> <<>>, il |-> FALSE, d |-> r.d]
                ELSE IF LENGTH \in d.deterministic /\ DigitsLT(length, uint_minima[kind + 1])
                     THEN [err |-> "DeterministicError", length |-> <<>>, il |-> FALSE, d |-> r.d]
                ELSE [err |-> "", length |-> length, il |-> FALSE, d |-> r.d]
        ELSE IF initial_byte \in {95, 127, 159, 191}
             THEN [err |-> "", length |-> <<>>, il |-> TRUE, d |-> d]
        ELSE [err |-> "BadInitialByteError", length |-> <<>>, il |-> FALSE, d |-> d]

\* CBORDecoder.decode_unsigned_int
decode_unsigned_int(b, d, initial_byte) ==
    LET l == decode_length(b, d, initial_byte)
    IN  IF l.err # "" THEN DecFail(l.err, l.d) ELSE DecOk(PyInt(FALSE, l.length), l.d)

\* CBORDecoder.decode_negative_int: -1 - length
decode_negative_int(b, d, initial_byte) ==
    LET l == decode_length(b, d, initial_byte)
    IN  IF l.err # "" THEN DecFail(l.err, l.d) ELSE DecOk(PyInt(TRUE, DigitsInc(l.length)), l.d)

\* decode_text
decode_text(raw_utf8, d) ==
    LET u == Utf8Decode(raw_utf8)
    IN  IF u.ok THEN DecOk(PyStr(u.cps), d) ELSE DecFail("StringEncodingError", d)

RECURSIVE _byte_string_parts(_, _, _)
\* _byte_string_parts letting every initial byte of major type 2 open a chunk
_byte_string_parts_any_chunk(b, d, acc) ==
    LET r == read(b, d, 1)
        initial_byte == r.bytes[1]
    IN  IF r.err # "" THEN DecFail(r.err, r.d)
        ELSE IF 64 <= initial_byte /\ initial_byte < 96 THEN
            LET l == decode_length(b, r.d, initial_byte)
                c == read_length(b, l.d, l.length)
            IN  IF l.err # "" THEN DecFail(l.err, l.d)
                ELSE IF c.err # "" THEN DecFail(c.err, c.d)
                ELSE _byte_string_parts(b, c.d, acc \o c.bytes)
        ELSE IF initial_byte = 255 THEN DecOk(PyBytes(acc), r.d)
        ELSE DecFail("BadInitialByteError", r.d)

\* the chunks of an indefinite-length byte string, joined; acc is what was yielded so far
_byte_string_parts(b, d, acc) ==
    LET r == read(b, d, 1)
        initial_byte == r.bytes[1]
    IN  IF r.err # "" THEN DecFail(r.err, r.d)
        ELSE IF 64 <= initial_byte /\ initial_byte < 92 THEN
            \* decode_byte_string(initial_byte), which here cannot be indefinite
            LET l == decode_length(b, r.d, initial_byte)
                c == read_length(b, l.d, l.length)
            IN  IF l.err # "" THEN DecFail(l.err, l.d)
                ELSE IF c.err # "" THEN DecFail(c.err, c.d)
                ELSE _byte_string_parts(b, c.d, acc \o c.bytes)
        ELSE IF initial_byte = 255 THEN DecOk(PyBytes(acc), r.d)
        ELSE DecFail("BadInitialByteError", r.d)

\* decode_byte_string reading the chunks whatever the determinism flags
decode_byte_string_unchecked(b, d, initial_byte) ==
    LET l == decode_length(b, d, initial_byte)
    IN  IF l.err # "" THEN DecFail(l.err, l.d)
        ELSE IF l.il THEN _byte_string_parts(b, l.d, <<>>)
        ELSE LET c == read_length(b, l.d, l.length)
             IN  IF c.err # "" THEN DecFail(c.err, c.d) ELSE DecOk(PyBytes(c.bytes), c.d)

\* CBORDecoder.decode_byte_string
decode_byte_string(b, d, initial_byte) ==
    LET l == decode_length(b, d, initial_byte)
    IN  IF l.err # "" THEN DecFail(l.err, l.d)
        ELSE IF l.il THEN
            (IF REALIZE_IL \in l.d.deterministic THEN DecFail("DeterministicError", l.d)
             ELSE _byte_string_parts(b, l.d, <<>>))
        ELSE LET c == read_length(b, l.d, l.length)
             IN  IF c.err # "" THEN DecFail(c.err, c.d) ELSE DecOk(PyBytes(c.bytes), c.d)

RECURSIVE _text_string_parts(_, _, _)
\* the chunks of an indefinite-length text string, each decoded, joined
_text_string_parts(b, d, acc) ==
    LET r == read(b, d, 1)
        initial_byte == r.bytes[1]
    IN  IF r.err # "" THEN DecFail(r.err, r.d)
        ELSE IF 96 <= initial_byte /\ initial_byte < 124 THEN
            \* decode_text_string(initial_byte), which here cannot be indefinite
            LET l == decode_length(b, r.d, initial_byte)
                c == read_length(b, l.d, l.length)
                t == decode_text(c.bytes, c.d)
            IN  IF l.err # "" THEN DecFail(l.err, l.d)
                ELSE IF c.err # "" THEN DecFail(c.err, c.d)
                ELSE IF t.err # "" THEN t
                ELSE _text_string_parts(b, c.d, acc \o t.val.v)
        ELSE IF initial_byte = 255 THEN DecOk(PyStr(acc), r.d)
        ELSE DecFail("BadInitialByteError", r.d)

\* CBORDecoder.decode_text_string
decode_text_string(b, d, initial_byte) ==
    LET l == decode_length(b, d, initial_byte)
    IN  IF l.err # "" THEN DecFail(l.err, l.d)
        ELSE IF l.il THEN
            (IF REALIZE_IL \in l.d.deterministic THEN DecFail("DeterministicError", l.d)
             ELSE _text_string_parts(b, l.d, <<>>))
        ELSE LET c == read_length(b, l.d, l.length)
             IN  IF c.err # "" THEN DecFail(c.err, c.d) ELSE decode_text(c.bytes, c.d)

RECURSIVE decode_item(_, _, _)
RECURSIVE decode_next_item(_, _)
RECURSIVE _list_parts(_, _, _)
RECURSIVE _list_items(_, _, _, _)
RECURSIVE _key_value_pairs(_, _, _, _, _)

\* decode_item() with no initial byte given: it reads one
decode_next_item(b, d) ==
    LET r == read(b, d, 1)
    IN  IF r.err # "" THEN DecFail(r.err, r.d) ELSE decode_item(b, r.d, r.bytes[1])

\* _list_parts yielding the items last to first
_list_parts_reversed(b, d, acc) ==
    LET r == read(b, d, 1)
        initial_byte == r.bytes[1]
        more(i) == IF i.err # "" THEN i ELSE _list_parts(b, i.d, <<i.val>> \o acc)
    IN  IF r.err # "" THEN DecFail(r.err, r.d)
        ELSE IF initial_byte = 255 THEN [err |-> "", val |-> acc, d |-> r.d]
        ELSE more(decode_item(b, r.d, initial_byte))

\* CBORDecoder._list_parts, realized: the items up to the break; val is the sequence
_list_parts(b, d, acc) ==
    LET r == read(b, d, 1)
        initial_byte == r.bytes[1]
        more(i) == IF i.err # "" THEN i ELSE _list_parts(b, i.d, Append(acc, i.val))
    IN  IF r.err # "" THEN DecFail(r.err, r.d)
        ELSE IF initial_byte = 255 THEN [err |-> "", val |-> acc, d |-> r.d]
        ELSE more(decode_item(b, r.d, initial_byte))

\* (decode_item() for _ in range(length)), realized; n is what is left of the range
_list_items(b, d, n, acc) ==
    LET more(i) == IF i.err # "" THEN i ELSE _list_items(b, i.d, n - 1, Append(acc, i.val))
    IN  IF n = 0 THEN [err |-> "", val |-> acc, d |-> d]
        ELSE more(decode_next_item(b, d))

\* an object of class cls with contents v that the decoder makes: one with an
\* identity if it was put in the table of shared values under id
Construct(cls, id, v) ==
    IF id = -1 THEN [t |-> cls, v |-> v] ELSE [t |-> cls, v |-> v, id |-> id]

\* _build_mutable handing out the class whether or not a shared ID is pending
_build_mutable_unshared(d, cls) == [cls |-> cls, id |-> -1, d |-> d]

\* CBORDecoder._build_mutable(cls): with no shared ID pending the class itself; with
\* one pending, an empty object is put in the table under that ID, the ID is no longer
\* pending, and the builder returned fills that object
_build_mutable(d, cls) ==
    IF d.pending_id = -1 THEN [cls |-> cls, id |-> -1, d |-> d]
    ELSE [cls |-> cls, id |-> d.pending_id,
          d |-> [d EXCEPT !.shared_ids = (d.pending_id :> Construct(cls, d.pending_id, <<>>)) @@ @,
                          !.pending_id = -1]]

\* the class an immutable container is made by
Immutable(d, cls) == [cls |-> cls, id |-> -1, d |-> d]

\* CBORDecoder.decode_list
decode_list(b, d, initial_byte) ==
    LET build(cls, items) == IF items.err # "" THEN items
                             ELSE DecOk(Construct(cls.cls, cls.id, items.val), items.d)
        generate(l, cls) ==
            build(cls, IF l.il THEN _list_parts(b, cls.d, <<>>)
                       ELSE _list_items(b, cls.d, Clamp(l.length, Len(b) + 1), <<>>))
        check(l, cls) ==
            IF l.il /\ REALIZE_IL \in l.d.deterministic
            THEN DecFail("DeterministicError", cls.d)
            ELSE generate(l, cls)
        after_length(l) ==
            IF l.err # "" THEN DecFail(l.err, l.d)
            ELSE check(l, IF IMMUTABLE \in l.d.flags THEN Immutable(l.d, "tuple")
                          ELSE _build_mutable(l.d, "list"))
    IN  after_length(decode_length(b, d, initial_byte))

\* CBORDecoder.flags_set(mask), entered: the flags inside the with block
flags_set(d, mask) == [d EXCEPT !.flags = @ \cup mask]

\* _key_value_pairs taking the break byte as the end of a definite-length map too
_key_value_pairs_any_break(b, d, il, n, acc) ==
    LET r == read(b, d, 1)
        initial_byte == r.bytes[1]
        more(key, val) ==
            IF val.err # "" THEN [err |-> val.err, pairs |-> acc, d |-> val.d]
            ELSE _key_value_pairs(b, val.d, il, IF il THEN n ELSE n - 1,
                                  Append(acc, <<key.val, val.val>>))
        \* leaving the with block puts the old flags back
        value_of(old_flags, key) ==
            IF key.err # "" THEN [err |-> key.err, pairs |-> acc, d |-> key.d]
            ELSE more(key, decode_next_item(b, [key.d EXCEPT !.flags = old_flags]))
    IN  IF ~il /\ n = 0 THEN [err |-> "", pairs |-> acc, d |-> d]
        ELSE IF r.err # "" THEN [err |-> r.err, pairs |-> acc, d |-> r.d]
        ELSE IF initial_byte = 255 THEN [err |-> "", pairs |-> acc, d |-> r.d]
        ELSE value_of(r.d.flags, decode_item(b, flags_set(r.d, {IMMUTABLE}), initial_byte))

\* _key_value_pairs without the with block's exit: the flags of the key stay set
_key_value_pairs_flags_kept(b, d, il, n, acc) ==
    LET r == read(b, d, 1)
        initial_byte == r.bytes[1]
        more(key, val) ==
            IF val.err # "" THEN [err |-> val.err, pairs |-> acc, d |-> val.d]
            ELSE _key_value_pairs(b, val.d, il, IF il THEN n ELSE n - 1,
                                  Append(acc, <<key.val, val.val>>))
        value_of(key) ==
            IF key.err # "" THEN [err |-> key.err, pairs |-> acc, d |-> key.d]
            ELSE more(key, decode_next_item(b, key.d))
    IN  IF ~il /\ n = 0 THEN [err |-> "", pairs |-> acc, d |-> d]
        ELSE IF r.err # "" THEN [err |-> r.err, pairs |-> acc, d |-> r.d]
        ELSE IF initial_byte = 255 /\ il THEN [err |-> "", pairs |-> acc, d |-> r.d]
        ELSE value_of(decode_item(b, flags_set(r.d, {IMMUTABLE}), initial_byte))

RECURSIVE Unhashable(_)
\* hash(key) raises TypeError: the key is a list, dict or set (which at key position
\* only a shared reference yields), or holds one
Unhashable(key) ==
    IF key.t \in {"ref", "list", "dict", "OrderedDict", "set"} THEN TRUE
    ELSE IF key.t = "tuple" THEN \E i \in 1..Len(key.v) : Unhashable(key.v[i])
    ELSE IF key.t \in DictKinds
         THEN \E i \in 1..Len(key.v) : Unhashable(key.v[i][1]) \/ Unhashable(key.v[i][2])
    ELSE IF key.t = "CBORTag" THEN Unhashable(key.v[2])
    ELSE FALSE

\* CBORDecoder._key_value_pairs, realized: [err, keys, pairs, d].  il is length < 0,
\* n is what is left of a definite length.  The dict under construction takes each
\* pair as it is yielded, and raises TypeError for a key it cannot hash
_key_value_pairs(b, d, il, n, acc) ==
    LET r == read(b, d, 1)
        initial_byte == r.bytes[1]
        more(key, val) ==
            IF val.err # "" THEN [err |-> val.err, pairs |-> acc, d |-> val.d]
            ELSE IF Unhashable(key.val) THEN [err |-> "TypeError", pairs |-> acc, d |-> val.d]
            ELSE _key_value_pairs(b, val.d, il, IF il THEN n ELSE n - 1,
                                  Append(acc, <<key.val, val.val>>))
        \* leaving the with block puts the old flags back
        value_of(old_flags, key) ==
            IF key.err # "" THEN [err |-> key.err, pairs |-> acc, d |-> key.d]
            ELSE more(key, decode_next_item(b, [key.d EXCEPT !.flags = old_flags]))
    IN  IF ~il /\ n = 0 THEN [err |-> "", pairs |-> acc, d |-> d]
        ELSE IF r.err # "" THEN [err |-> r.err, pairs |-> acc, d |-> r.d]
        ELSE IF initial_byte = 255 /\ il THEN [err |-> "", pairs |-> acc, d |-> r.d]
        ELSE value_of(r.d.flags, decode_item(b, flags_set(r.d, {IMMUTABLE}), initial_byte))

\* what a dict or a set takes for the same key: equal hashes, then ==
SameKey(x, y) == PyEq(x, y) /\ HashOf(x) = HashOf(y)

RECURSIVE DictOf(_, _)
\* dict(pairs): a key that is the same as an earlier one keeps the earlier key's place
\* and takes the later value
DictOf(pairs, acc) ==
    IF pairs = <<>> THEN acc
    ELSE LET k == pairs[1][1]
             hit == {i \in 1..Len(acc) : SameKey(acc[i][1], k)}
         IN  IF hit = {} THEN DictOf(Tail(pairs), Append(acc, pairs[1]))
             ELSE DictOf(Tail(pairs),
                         [i \in 1..Len(acc) |->
                             IF i \in hit THEN <<acc[i][1], pairs[1][2]>> ELSE acc[i]])

RECURSIVE Dups(_, _)
\* decode_dict's dups: [key for key in keys if key in seen or seen.add(key)], the
\* keys found in the set of those met before, in input order
Dups(keys, seen) ==
    IF keys = <<>> THEN <<>>
    ELSE IF \E i \in 1..Len(seen) : SameKey(seen[i], keys[1])
         THEN <<keys[1]>> \o Dups(Tail(keys), seen)
    ELSE Dups(Tail(keys), Append(seen, keys[1]))

\* CBORDecoder.decode_dict; a DuplicateKeyError carries the keys its message lists
decode_dict(b, d, initial_byte) ==
    LET build(cls, kv, value) ==
            IF kv.err # "" THEN DecFail(kv.err, kv.d)
            ELSE IF Len(value) # Len(kv.pairs)
                 THEN [err |-> "DuplicateKeyError",
                       val |-> PyTuple(Dups([i \in 1..Len(kv.pairs) |-> kv.pairs[i][1]], <<>>)),
                       d |-> kv.d]
            ELSE DecOk(Construct(cls.cls, cls.id, value), kv.d)
        collect(cls, kv) == build(cls, kv, DictOf(kv.pairs, <<>>))
        after_length(l) ==
            LET ordered == ORDERED \in l.d.flags
                cls == IF ordered
                       THEN (IF IMMUTABLE \in l.d.flags THEN Immutable(l.d, "FrozenOrderedDict")
                             ELSE _build_mutable(l.d, "OrderedDict"))
                       ELSE (IF IMMUTABLE \in l.d.flags THEN Immutable(l.d, "FrozenDict")
                             ELSE _build_mutable(l.d, "dict"))
                d1 == IF ordered THEN [cls.d EXCEPT !.flags = @ \ {ORDERED}] ELSE cls.d
            IN  IF l.err # "" THEN DecFail(l.err, l.d)
                ELSE IF l.il /\ REALIZE_IL \in l.d.deterministic
                     THEN DecFail("DeterministicError", l.d)
                ELSE collect(cls, _key_value_pairs(b, d1, l.il,
                                                   Clamp(l.length, Len(b) + 1), <<>>))
    IN  after_length(decode_length(b, d, initial_byte))

\* int.from_bytes(bytes, byteorder='big')
from_bytes(bytes) == StripZeros(bytes)

\* CBORDecoder.decode_bignum
decode_bignum(b, d, tag_value) ==
    LET convert(bignum_encoding) ==
            LET value == from_bytes(bignum_encoding.val.v)
                result == IF tag_value = 3 THEN PyInt(TRUE, DigitsInc(value))
                          ELSE PyInt(FALSE, value)
            IN  IF bignum_encoding.err # "" THEN bignum_encoding
                ELSE IF bignum_encoding.val.t # "bytes"
                     THEN DecFail("TagError", bignum_encoding.d)
                ELSE IF RETAIN_BIGNUMS \in bignum_encoding.d.flags
                     THEN DecOk(PyBigNum(result), bignum_encoding.d)
                ELSE DecOk(result, bignum_encoding.d)
    IN  convert(decode_next_item(b, d))

\* the items of array.array(typecode, array_bytes), byte-swapped when swap_bytes:
\* each item is kept as its bytes, most significant first
ArrayItems(array_bytes, itemsize, swap_bytes) ==
    LET native(i) == SubSeq(array_bytes, (i - 1) * itemsize + 1, i * itemsize)
        reversed(c) == [j \in 1..Len(c) |-> c[Len(c) + 1 - j]]
        \* the machine's order is most significant first iff that order is not little-endian
        big_endian(c) == IF swap_bytes = is_machine_int_le THEN c ELSE reversed(c)
    IN  [i \in 1..(Len(array_bytes) \div itemsize) |-> big_endian(native(i))]

\* CBORDecoder.decode_typed_array: array() raises ValueError ('bytes length not a
\* multiple of item size') for a byte string that is not a whole number of items
decode_typed_array(b, d, tag_value) ==
    LET hint == typed_array_decoder_hints[tag_value]
        convert(array_bytes) ==
            IF array_bytes.err # "" THEN array_bytes
            ELSE IF array_bytes.val.t # "bytes" THEN DecFail("TagError", array_bytes.d)
            ELSE IF Len(array_bytes.val.v) % hint.itemsize # 0
                 THEN DecFail("ValueError", array_bytes.d)
            ELSE DecOk(PyArray(hint.typecode,
                               ArrayItems(array_bytes.val.v, hint.itemsize, hint.swap_bytes)),
                       array_bytes.d)
    IN  convert(decode_next_item(b, d))

\* type(value), where a PyRef is the object in the table of shared values it mentions
TypeOf(d, value) == IF value.t = "ref" THEN d.shared_ids[value.v].t ELSE value.t

\* CBORDecoder.decode_ordered_dict: sets ORDERED, which the next decode_dict clears
decode_ordered_dict(b, d, tag_value) ==
    LET check(result) ==
            IF result.err # "" THEN result
            ELSE IF TypeOf(result.d, result.val) \notin DictKinds
                 THEN DecFail("TagError", result.d)
            ELSE result
    IN  check(decode_next_item(b, [d EXCEPT !.flags = @ \cup {ORDERED}]))

RECURSIVE SetOf(_, _)
\* set(members): a member equal (==) to an earlier one is dropped
SetOf(members, acc) ==
    IF members = <<>> THEN acc
    ELSE IF \E i \in 1..Len(acc) : SameKey(acc[i], members[1])
         THEN SetOf(Tail(members), acc)
    ELSE SetOf(Tail(members), Append(acc, members[1]))

\* what iterating over a Sequence yields: the elements of a list or tuple (a PyRef
\* being the list in the table of shared values), the characters of a str, the
\* bytes of a bytes as ints
Elements(d, value) ==
    IF value.t = "ref" THEN d.shared_ids[value.v].v
    ELSE IF value.t = "str" THEN [i \in 1..Len(value.v) |-> PyStr(<<value.v[i]>>)]
    ELSE IF value.t = "bytes" THEN [i \in 1..Len(value.v) |-> PyNat(value.v[i])]
    ELSE value.v

\* CBORDecoder.decode_set: the members are decoded with IMMUTABLE set; the set is a
\* frozenset if IMMUTABLE was set before
decode_set(b, d, tag_value) ==
    LET build(old_flags, members) ==
            LET restored == [members.d EXCEPT !.flags = old_flags]
            IN  IF members.err # "" THEN members
                ELSE IF TypeOf(members.d, members.val) \notin {"list", "tuple", "str", "bytes"}
                     THEN DecFail("TagError", restored)
                ELSE IF \E i \in 1..Len(Elements(members.d, members.val)) :
                            Unhashable(Elements(members.d, members.val)[i])
                     THEN DecFail("TypeError", restored)
                ELSE DecOk(PySet(IF IMMUTABLE \in old_flags THEN "frozenset" ELSE "set",
                                 SetOf(Elements(members.d, members.val), <<>>)),
                           restored)
    IN  build(d.flags, decode_next_item(b, flags_set(d, {IMMUTABLE})))

RECURSIVE Alias(_)
\* another mention of a value taken from the table of shared values: the objects
\* with an identity in it are those same objects, not new ones
Alias(value) ==
    IF "id" \in DOMAIN value THEN PyRef(value.id)
    ELSE IF value.t \in {"list", "tuple"} THEN [value EXCEPT !.v = [i \in 1..Len(@) |-> Alias(@[i])]]
    ELSE IF value.t \in DictKinds
         THEN [value EXCEPT !.v = [i \in 1..Len(@) |-> <<Alias(@[i][1]), Alias(@[i][2])>>]]
    ELSE IF value.t = "CBORTag" THEN [value EXCEPT !.v = <<@[1], Alias(@[2])>>]
    ELSE value

\* CBORDecoder.decode_shared: the next ID is pending while the item is decoded and
\* the item is put in the table under it; an exception leaves the ID pending
decode_shared(b, d, tag_value) ==
    LET shared_id == d.shared_id
        store(value) ==
            IF value.err # "" THEN value
            ELSE DecOk(value.val,
                       [value.d EXCEPT !.pending_id = -1,
                                       !.shared_ids = (shared_id :> value.val) @@ @])
    IN  store(decode_next_item(b, [d EXCEPT !.shared_id = @ + 1, !.pending_id = shared_id]))

\* the key of the table an int (or bool) looks up, -1 if it can be none
SharedKey(value) ==
    LET i == AsInt(value)
    IN  IF i.neg \/ Len(i.mag) > 2 THEN -1 ELSE DigitsToNat(i.mag)

\* CBORDecoder.decode_shared_ref
decode_shared_ref(b, d, tag_value) ==
    LET lookup(shared_id) ==
            IF shared_id.err # "" THEN shared_id
            ELSE IF shared_id.val.t \notin NumberKinds THEN DecFail("TagError", shared_id.d)
            ELSE IF SharedKey(shared_id.val) \notin DOMAIN shared_id.d.shared_ids
                 THEN DecFail("TagError", shared_id.d)
            ELSE DecOk(Alias(shared_id.d.shared_ids[SharedKey(shared_id.val)]), shared_id.d)
    IN  lookup(decode_next_item(b, d))

\* getattr(self.__class__, decoder_name)(self, tag_value)
default_tag_decoder(b, d, decoder_name, tag_value) ==
    IF decoder_name = "decode_bignum" THEN decode_bignum(b, d, tag_value)
    ELSE IF decoder_name = "decode_shared" THEN decode_shared(b, d, tag_value)
    ELSE IF decoder_name = "decode_typed_array" THEN decode_typed_array(b, d, tag_value)
    ELSE IF decoder_name = "decode_ordered_dict" THEN decode_ordered_dict(b, d, tag_value)
    ELSE IF decoder_name = "decode_set" THEN decode_set(b, d, tag_value)
    ELSE decode_shared_ref(b, d, tag_value)

\* the handlers a caller passes in tag_decoders, by name.  "last" is the test's
\* tag_800_handler, decoder.decode_item()[-1]; "tagged" is
\* lambda decoder, tag_value: (tag_value, decoder.decode_item())
tag_handler(b, d, handler, tag_value) ==
    LET last(payload) ==
            IF payload.err # "" THEN payload
            ELSE IF payload.val.t \in DictKinds THEN DecFail("KeyError", payload.d)
            ELSE IF payload.val.t \notin {"str", "bytes", "list", "tuple"}
                 THEN DecFail("TypeError", payload.d)
            ELSE IF payload.val.v = <<>> THEN DecFail("IndexError", payload.d)
            ELSE IF payload.val.t = "str"
                 THEN DecOk(PyStr(<<payload.val.v[Len(payload.val.v)]>>), payload.d)
            ELSE IF payload.val.t = "bytes"
                 THEN DecOk(PyNat(payload.val.v[Len(payload.val.v)]), payload.d)
            ELSE DecOk(payload.val.v[Len(payload.val.v)], payload.d)
        tagged(payload) ==
            IF payload.err # "" THEN payload
            ELSE DecOk(PyTuple(<<PyInt(FALSE, tag_value), payload.val>>), payload.d)
    IN  IF handler = "last" THEN last(decode_next_item(b, d))
        ELSE tagged(decode_next_item(b, d))

\* decode_tag asking default_tag_decoders before the caller's tag_decoders
decode_tag_default_first(b, d, initial_byte) ==
    LET wrap(tag, payload) == IF payload.err # "" THEN payload
                              ELSE DecOk(PyTag(tag, payload.val), payload.d)
        after_length(l) ==
            LET small == Len(l.length) <= 2
                tag_value == IF small THEN DigitsToNat(l.length) ELSE -1
            IN  IF l.err # "" THEN DecFail(l.err, l.d)
                ELSE IF small /\ tag_value \in DOMAIN default_tag_decoders
                     THEN default_tag_decoder(b, l.d, default_tag_decoders[tag_value], tag_value)
                ELSE IF small /\ tag_value \in DOMAIN l.d.custom_tag_decoders
                     THEN tag_handler(b, l.d, l.d.custom_tag_decoders[tag_value], l.length)
                ELSE wrap(l.length, decode_next_item(b, l.d))
    IN  after_length(decode_length(b, d, initial_byte))

\* CBORDecoder.decode_tag: a custom decoder, else the default one, else a CBORTag.
\* self._tag_decoders caches the decoder found for a tag number; the two tables it
\* is filled from do not change during a decode, so a cached answer is the answer
\* looked up again
decode_tag(b, d, initial_byte) ==
    LET wrap(tag, payload) == IF payload.err # "" THEN payload
                              ELSE DecOk(PyTag(tag, payload.val), payload.d)
        after_length(l) ==
            LET small == Len(l.length) <= 2
                tag_value == IF small THEN DigitsToNat(l.length) ELSE -1
            IN  IF l.err # "" THEN DecFail(l.err, l.d)
                ELSE IF small /\ tag_value \in DOMAIN l.d.custom_tag_decoders
                     THEN tag_handler(b, l.d, l.d.custom_tag_decoders[tag_value], l.length)
                ELSE IF small /\ tag_value \in DOMAIN default_tag_decoders
                     THEN default_tag_decoder(b, l.d, default_tag_decoders[tag_value], tag_value)
                ELSE IF small /\ tag_value \in other_default_tags
                     THEN DecFail("Unmodelled", l.d)
                ELSE wrap(l.length, decode_next_item(b, l.d))
    IN  after_length(decode_length(b, d, initial_byte))

RECURSIVE ByteBits(_)
\* the bits of a byte string, most significant first
ByteBits(raw) ==
    IF raw = <<>> THEN <<>>
    ELSE [i \in 1..8 |-> (raw[1] \div 2^(8 - i)) % 2] \o ByteBits(Tail(raw))

RECURSIVE BitsToNat(_)
BitsToNat(bits) ==
    IF bits = <<>> THEN 0 ELSE 2 * BitsToNat(SubSeq(bits, 1, Len(bits) - 1)) + bits[Len(bits)]

\* how many bits of a fraction are in use: its length less its trailing zeros
FractionBits(bits) ==
    IF \A i \in 1..Len(bits) : bits[i] = 0 THEN 0
    ELSE CHOOSE n \in 1..Len(bits) : bits[n] = 1 /\ \A i \in (n + 1)..Len(bits) : bits[i] = 0

\* the exponent widths of IEEE 754 binary16, binary32 and binary64, by byte length
ExponentBits(length) == IF length = 2 THEN 5 ELSE IF length = 4 THEN 8 ELSE 11

\* be_float_unpackers[...](raw): the float as sign, biased exponent and fraction
unpack_be_float(raw) ==
    LET bits == ByteBits(raw)
        ebits == ExponentBits(Len(raw))
    IN  [sign |-> bits[1],
         ebits |-> ebits,
         exponent |-> BitsToNat(SubSeq(bits, 2, 1 + ebits)),
         fraction |-> SubSeq(bits, 2 + ebits, Len(bits))]

\* value != value
IsNaN(f) == f.exponent = 2^(f.ebits) - 1 /\ FractionBits(f.fraction) > 0

\* pack_be_floatN(value) unpacks to value again, N the byte length of the format with
\* ebits exponent bits: the format holds the value exactly (f is not a NaN)
FitsFloat(f, length) ==
    LET ebits == ExponentBits(length)
        mbits == 8 * length - 1 - ebits
        emin == 2 - 2^(ebits - 1)
        emax == 2^(ebits - 1) - 1
        e == f.exponent - (2^(f.ebits - 1) - 1)
        p == FractionBits(f.fraction)
    IN  IF f.exponent = 2^(f.ebits) - 1 THEN TRUE              \* an infinity
        ELSE IF f.exponent = 0 THEN p = 0 \/ ebits = f.ebits      \* a zero, a subnormal
        ELSE /\ e <= emax
             /\ IF e >= emin THEN p <= mbits ELSE e - p >= emin - mbits

\* len(pack_cbor_short_float(value)) - 1 for the float read from raw: 2 for a NaN,
\* else 8 if binary32 loses precision, else 2 if binary16 holds the value, else 4
short_float_length(raw) ==
    LET f == unpack_be_float(raw)
    IN  IF IsNaN(f) THEN 2
        ELSE IF ~FitsFloat(f, 4) THEN 8
        ELSE IF FitsFloat(f, 2) THEN 2
        ELSE 4

\* decode_simple raising MisplacedBreakError for every value above 27
decode_simple_break_above_27(b, d, initial_byte) ==
    LET value == initial_byte % 32
    IN  IF value < 20 THEN DecOk(PySimple(value), d)
        ELSE IF value < 24 THEN
            DecOk(IF value = 20 THEN PyBool(FALSE) ELSE IF value = 21 THEN PyBool(TRUE)
                  ELSE IF value = 22 THEN PyNone ELSE PyUndefined, d)
        ELSE IF value = 24 THEN
            LET r == read(b, d, 1)
            IN  IF r.err # "" THEN DecFail(r.err, r.d)
                ELSE IF r.bytes[1] < 32 THEN DecFail("BadSimpleError", r.d)
                ELSE DecOk(PySimple(r.bytes[1]), r.d)
        ELSE IF value < 28 THEN
            LET r == read(b, d, Pow2(value - 24))
            IN  IF r.err # "" THEN DecFail(r.err, r.d)
                ELSE DecOk(PyFloat(r.bytes), r.d)
        ELSE DecFail("MisplacedBreakError", d)

\* CBORDecoder.decode_simple
decode_simple(b, d, initial_byte) ==
    LET value == initial_byte % 32
    IN  IF value < 20 THEN DecOk(PySimple(value), d)
        ELSE IF value < 24 THEN
            DecOk(IF value = 20 THEN PyBool(FALSE) ELSE IF value = 21 THEN PyBool(TRUE)
                  ELSE IF value = 22 THEN PyNone ELSE PyUndefined, d)
        ELSE IF value = 24 THEN
            LET r == read(b, d, 1)
            IN  IF r.err # "" THEN DecFail(r.err, r.d)
                ELSE IF r.bytes[1] < 32 THEN DecFail("BadSimpleError", r.d)
                ELSE DecOk(PySimple(r.bytes[1]), r.d)
        ELSE IF value < 28 THEN
            LET length == Pow2(value - 24)
                r == read(b, d, length)
            IN  IF r.err # "" THEN DecFail(r.err, r.d)
                ELSE IF /\ value > 25
                        /\ FLOAT \in d.deterministic
                        /\ length # short_float_length(r.bytes)
                     THEN DecFail("DeterministicError", r.d)
                ELSE DecOk(PyFloat(r.bytes), r.d)
        ELSE IF value = 31 THEN DecFail("MisplacedBreakError", d)
        ELSE DecFail("BadInitialByteError", d)

\* CBORDecoder.decode_item(initial_byte): self._major_decoders[initial_byte >> 5]
decode_item(b, d, initial_byte) ==
    LET major == initial_byte \div 32
    IN  IF major = 0 THEN decode_unsigned_int(b, d, initial_byte)
        ELSE IF major = 1 THEN decode_negative_int(b, d, initial_byte)
        ELSE IF major = 2 THEN decode_byte_string(b, d, initial_byte)
        ELSE IF major = 3 THEN decode_text_string(b, d, initial_byte)
        ELSE IF major = 4 THEN decode_list(b, d, initial_byte)
        ELSE IF major = 5 THEN decode_dict(b, d, initial_byte)
        ELSE IF major = 6 THEN decode_tag(b, d, initial_byte)
        ELSE decode_simple(b, d, initial_byte)

\* decode without the check for unconsumed data
decode_unchecked(b, d) == decode_next_item(b, d)

\* CBORDecoder.decode
decode(b, d) ==
    LET check(result) ==
            LET more == _read(b, result.d, 1)
            IN  IF result.err # "" THEN result
                ELSE IF result.d.check_eof /\ more.bytes # <<>>
                     THEN DecFail("UnconsumedDataError", more.d)
                ELSE IF result.d.check_eof THEN DecOk(result.val, more.d)
                ELSE result
    IN  check(decode_next_item(b, d))

\* decode_sequence with the whole loop body inside the try block
decode_sequence_wide_try(b, d) ==
    LET r == read(b, d, 1)
        step(item) ==
            IF item.err = "UnexpectedEOFError"
            THEN [kind |-> "return", val |-> PyNone, d |-> item.d]
            ELSE IF item.err # "" THEN [kind |-> item.err, val |-> PyNone, d |-> item.d]
            ELSE [kind |-> "yield", val |-> item.val, d |-> item.d]
    IN  IF r.err = "UnexpectedEOFError" THEN [kind |-> "return", val |-> PyNone, d |-> r.d]
        ELSE step(decode_item(b, r.d, r.bytes[1]))

\* CBORDecoder.decode_sequence, one resumption of the generator: it yields the next
\* item, returns (the loop broke on end of input) or lets decode_item's exception
\* out; kind is "yield", "return" or the exception's name
decode_sequence(b, d) ==
    LET r == read(b, d, 1)
        step(item) ==
            IF item.err # "" THEN [kind |-> item.err, val |-> PyNone, d |-> item.d]
            ELSE [kind |-> "yield", val |-> item.val, d |-> item.d]
    IN  IF r.err = "UnexpectedEOFError" THEN [kind |-> "return", val |-> PyNone, d |-> r.d]
        ELSE step(decode_item(b, r.d, r.bytes[1]))

----------------------------------------------------------------------------
(* The inputs drawn *)

RECURSIVE Repeat(_, _)
Repeat(x, n) == IF n <= 0 THEN <<>> ELSE <<x>> \o Repeat(x, n - 1)

\* naturals at the edges of every header width: the small ones, and 256^k - 1,
\* 256^k and 256^k + 1 for each k up to MaxArgBytes
HeaderArgs ==
    {NatToDigits(n) : n \in 0..MaxSmall}
    \cup {Repeat(255, k) : k \in 1..MaxArgBytes}
    \cup {<<1>> \o Zeros(k) : k \in 1..MaxArgBytes}
    \cup {<<1>> \o Zeros(k - 1) \o <<1>> : k \in 1..MaxArgBytes}

\* the integers drawn: each magnitude with both signs
IntInputs ==
    {PyInt(FALSE, m) : m \in HeaderArgs} \cup {PyInt(TRUE, m) : m \in HeaderArgs \ {<<>>}}

\* the scalars that containers are built from
Scalars ==
    {PyNat(1), PyNat(2), PyInt(TRUE, <<1>>), PyBytes(<<1>>), PyStr(<<97>>),
     PyBool(FALSE), PyNone}

\* the keys maps are built from (pairwise unequal)
Keys == {PyNat(1), PyNat(2), PyBytes(<<1>>), PyStr(<<97>>)}

RECURSIVE Size(_)
RECURSIVE SizeAll(_)
\* the number of data items of a value
Size(x) ==
    IF x.t = "list" THEN 1 + SizeAll(x.v)
    ELSE IF x.t = "dict" THEN 1 + SizeAll([i \in 1..Len(x.v) |-> x.v[i][2]]) + Len(x.v)
    ELSE 1
SizeAll(s) == IF s = <<>> THEN 0 ELSE Size(s[1]) + SizeAll(Tail(s))

RECURSIVE ValuesUpTo(_)
RECURSIVE ListsUpTo(_)
RECURSIVE PairsUpTo(_)
\* the values of at most n data items: scalars, lists and (insertion-ordered) dicts
ValuesUpTo(n) ==
    IF n <= 0 THEN {}
    ELSE Scalars
         \cup {PyList(s) : s \in ListsUpTo(n - 1)}
         \cup {PyDict("dict", p) : p \in PairsUpTo(n - 1)}
\* the sequences of values of at most n data items in all
ListsUpTo(n) ==
    {<<>>} \cup UNION {{<<x>> \o s : s \in ListsUpTo(n - Size(x))} : x \in ValuesUpTo(n)}
\* the sequences of <<key, value>> pairs with distinct keys, of at most n data items
PairsUpTo(n) ==
    {<<>>} \cup UNION {UNION {{<< <<k, x>> >> \o p :
                                  p \in {q \in PairsUpTo(n - 1 - Size(x)) :
                                            \A i \in 1..Len(q) : q[i][1] # k}} :
                              x \in ValuesUpTo(n - 1)} : k \in Keys}

\* the most data items of a value drawn as encoder input
MaxNodes == 3

EncoderInputs == IntInputs \cup ValuesUpTo(MaxNodes)

NoOutcome == [st |-> "none", val |-> PyNone]
Raised(e) == [st |-> e, val |-> PyNone]
Returned(v) == [st |-> "ok", val |-> v]
Outcome(r) == IF r.err = "" THEN Returned(r.val) ELSE Raised(r.err)

----------------------------------------------------------------------------
(* Spec: dumps(value) and then loads() of the bytes it produced *)

Init ==
    /\ arg \in {[value |-> v] : v \in EncoderInputs}
    /\ buf = <<>>
    /\ dec = CBORDecoder(FALSE, TRUE, {})
    /\ out = NoOutcome
    /\ yielded = <<>>
    /\ pc = "start"

\* CBOREncoder().encode(value)
Encode ==
    /\ pc = "start"
    /\ LET e == encode(default_encoder_options, arg.value)
       IN  IF e.err = "" THEN /\ buf' = e.out
                              /\ out' = out
                              /\ pc' = "encoded"
           ELSE /\ buf' = buf
                /\ out' = Raised(e.err)
                /\ pc' = "failed"
    /\ UNCHANGED <<arg, dec, yielded>>

\* CBORDecoder(BytesIO(buf).read).decode()
Loads ==
    /\ pc = "encoded"
    /\ LET r == decode(buf, dec)
       IN  /\ out' = Outcome(r)
           /\ dec' = r.d
    /\ pc' = "decoded"
    /\ UNCHANGED <<arg, buf, yielded>>

Next == Encode \/ Loads

Spec == Init /\ [][Next]_vars

----------------------------------------------------------------------------
(* What the format says of a header, for stating the claims *)

\* the header at the start of bytes h: its major type, its low five bits, the
\* bytes that carry its argument and the argument they spell
HeaderOf(h) ==
    LET minor == h[1] % 32
        width == IF minor < 24 THEN 0 ELSE Pow2(minor - 24)
        extra == SubSeq(h, 2, IF 1 + width <= Len(h) THEN 1 + width ELSE Len(h))
    IN  [major |-> h[1] \div 32,
         minor |-> minor,
         width |-> width,
         extra |-> extra,
         argument |-> IF minor < 24 THEN NatToDigits(minor) ELSE StripZeros(extra)]

\* n < 24, n < 2^(8 * w)
Below24(n) == n = <<>> \/ (Len(n) = 1 /\ n[1] < 24)
FitsBytes(n, w) == Len(n) <= w

\* the width of the shortest legal form of argument n < 2^64
ShortestWidth(n) ==
    IF Below24(n) THEN 0
    ELSE IF FitsBytes(n, 1) THEN 1
    ELSE IF FitsBytes(n, 2) THEN 2
    ELSE IF FitsBytes(n, 4) THEN 4
    ELSE 8

\* h is exactly the shortest header of the major type for argument n
IsShortestHeader(h, major, n) ==
    /\ h # <<>>
    /\ HeaderOf(h).major = major
    /\ HeaderOf(h).minor < 28
    /\ HeaderOf(h).width = ShortestWidth(n)
    /\ Len(h) = 1 + ShortestWidth(n)
    /\ HeaderOf(h).argument = n

----------------------------------------------------------------------------
(* C1, C3: the round trip *)

\* C1: decoding the bytes CBOREncoder.encode(V) produced yields a value equal to V,
\* for V built from integers, byte strings, text strings, booleans, null, lists and maps
C1_RoundTrip ==
    /\ pc # "failed"
    /\ pc = "decoded" => (out.st = "ok" /\ PyEq(out.val, arg.value))

\* the argument -1 - v (v < 0) or v (v >= 0) of integer v is below 2^64
ArgumentFits(i) ==
    IF i.neg THEN FitsBytes(i.mag, 8) \/ i.mag = Lit2p64 ELSE FitsBytes(i.mag, 8)

\* bytes e encode integer i: a major type 0 / 1 header with argument v / -1 - v, or
\* tag 2 / 3 and a byte string holding that argument big-endian with no leading zero
IsIntEncoding(e, i) ==
    LET h == HeaderOf(e)
        s == HeaderOf(Tail(e))
        content == SubSeq(e, 3 + s.width, Len(e))
    IN  IF ArgumentFits(i) THEN
            /\ h.major = (IF i.neg THEN 1 ELSE 0)
            /\ (IF i.neg THEN DigitsInc(h.argument) ELSE h.argument) = i.mag
            /\ Len(e) = 1 + h.width
        ELSE
            /\ e[1] = (IF i.neg THEN 195 ELSE 194)
            /\ s.major = 2
            /\ s.argument = NatToDigits(Len(content))
            /\ content # <<>> /\ content[1] # 0
            /\ (IF i.neg THEN DigitsInc(content) ELSE content) = i.mag

\* C3: int_parts never fails; it emits major type 0 / 1 with the argument when that is
\* below 2^64 and else tag 2 / 3 with the big-endian byte string, and decoding returns v
C3_IntEncoding ==
    arg.value.t = "int" =>
        /\ pc # "failed"
        /\ pc \in {"encoded", "decoded"} => IsIntEncoding(buf, arg.value.v)
        /\ pc = "decoded" => out = Returned(arg.value)

\* a negative integer beyond 64 bits has gone out as a bignum and come back
C3_Witness ==
    /\ pc = "decoded"
    /\ arg.value.t = "int"
    /\ arg.value.v.neg
    /\ ~ArgumentFits(arg.value.v)
    /\ buf[1] = 195

----------------------------------------------------------------------------
(* SpecHeader: the header codec on its own *)

Majors == 0..7

InitHeader ==
    /\ arg \in [length : HeaderArgs, major : Majors]
    /\ buf = <<>>
    /\ dec = CBORDecoder(FALSE, TRUE, {})
    /\ out = NoOutcome
    /\ yielded = <<>>
    /\ pc = "start"

\* b''.join(CBOREncoder.length_parts(length, major << 5))
LengthParts ==
    /\ pc = "start"
    /\ LET r == length_parts(arg.length, 32 * arg.major)
       IN  /\ buf' = r.out
           /\ out' = IF r.err = "" THEN NoOutcome ELSE Raised(r.err)
    /\ pc' = "length_parts"
    /\ UNCHANGED <<arg, dec, yielded>>

\* pack_cbor_length(length, major << 5)
PackCborLength ==
    /\ pc = "start"
    /\ LET r == pack_cbor_length(arg.length, 32 * arg.major)
       IN  /\ buf' = r.out
           /\ out' = IF r.err = "" THEN NoOutcome ELSE Raised(r.err)
    /\ pc' = "pack_cbor_length"
    /\ UNCHANGED <<arg, dec, yielded>>

\* a caller writes the header of major type 0..6 with its argument carried inline
\* (kind -1) or in 1, 2, 4 or 8 following bytes (kind 0..3), minimal or not
WriteHeader ==
    /\ pc = "start"
    /\ arg.major <= 6
    /\ \E kind \in -1..3 :
          /\ IF kind = -1 THEN Below24(arg.length) ELSE FitsBytes(arg.length, Pow2(kind))
          /\ buf' = IF kind = -1 THEN <<32 * arg.major + DigitsToNat(arg.length)>>
                    ELSE <<32 * arg.major + 24 + kind>>
                         \o Zeros(Pow2(kind) - Len(arg.length)) \o arg.length
          /\ arg' = [length |-> arg.length, major |-> arg.major, kind |-> kind]
    /\ pc' = "written"
    /\ UNCHANGED <<dec, out, yielded>>

\* a caller writes the initial byte of major type 0..7 whose low five bits are 31
WriteIndefinite ==
    /\ pc = "start"
    /\ buf' = <<32 * arg.major + 31>>
    /\ arg' = [length |-> arg.length, major |-> arg.major, kind |-> 4]
    /\ pc' = "written"
    /\ UNCHANGED <<dec, out, yielded>>

\* a decoder, with the LENGTH check on or off, reads the initial byte and decodes the
\* header as decode_item's handler for the major type does first: decode_length for
\* major types 0..6, decode_simple for major type 7
DecodeHeader ==
    /\ pc = "written"
    /\ \E deterministic \in {{}, {LENGTH}} :
          LET d0 == CBORDecoder(FALSE, TRUE, deterministic)
              r == read(buf, d0, 1)
              l == decode_length(buf, r.d, r.bytes[1])
              s == decode_simple(buf, r.d, r.bytes[1])
          IN  IF r.bytes[1] \div 32 = 7
              THEN /\ dec' = s.d
                   /\ out' = Outcome(s)
              ELSE /\ dec' = l.d
                   /\ out' = IF l.err # "" THEN Raised(l.err)
                             ELSE IF l.il THEN Returned(PyInt(TRUE, <<1>>))
                             ELSE Returned(PyInt(FALSE, l.length))
    /\ pc' = "decoded"
    /\ UNCHANGED <<arg, buf, yielded>>

NextHeader == LengthParts \/ PackCborLength \/ WriteHeader \/ WriteIndefinite \/ DecodeHeader

SpecHeader == InitHeader /\ [][NextHeader]_vars

\* C2: for 0 <= L < 2^64 and every major type length_parts and pack_cbor_length emit
\* the shortest legal header, its extra bytes being L big-endian; for L >= 2^64 they
\* raise OverflowError and emit nothing
C2_HeaderMinimality ==
    pc \in {"length_parts", "pack_cbor_length"} =>
        IF FitsBytes(arg.length, 8)
        THEN out.st = "none" /\ IsShortestHeader(buf, arg.major, arg.length)
        ELSE out.st = "OverflowError" /\ buf = <<>>

\* length_parts has emitted an 8-byte argument for a major type other than 0
C2_Witness ==
    /\ pc = "length_parts"
    /\ arg.major = 5
    /\ Len(arg.length) = 8
    /\ Len(buf) = 9

\* the argument written in 2^kind bytes would have fitted a shorter form
Widened(n, kind) ==
    \/ kind = 0 /\ Below24(n)
    \/ kind = 1 /\ FitsBytes(n, 1)
    \/ kind = 2 /\ FitsBytes(n, 2)
    \/ kind = 3 /\ FitsBytes(n, 4)

\* C4: with DeterministicFlags.LENGTH set a header of major type 0-6 whose argument is
\* carried in 1, 2, 4 or 8 bytes but is below 24, 2^8, 2^16 or 2^32 raises
\* DeterministicError; the shortest form never raises it; with the flag clear the
\* widened header decodes to the same argument without error
C4_MinimalLengthCheck ==
    (pc = "decoded" /\ arg.kind \in -1..3) =>
        /\ (LENGTH \in dec.deterministic /\ Widened(arg.length, arg.kind))
              => out.st = "DeterministicError"
        /\ ~Widened(arg.length, arg.kind) => out = Returned(PyInt(FALSE, arg.length))
        /\ LENGTH \notin dec.deterministic => out = Returned(PyInt(FALSE, arg.length))

\* an argument below 2^16 carried in 8 bytes has been refused under the LENGTH check
C4_Witness ==
    /\ pc = "decoded"
    /\ arg.kind = 3
    /\ Len(arg.length) = 2
    /\ LENGTH \in dec.deterministic
    /\ out.st = "DeterministicError"

\* C6 as stated: an initial byte with low five bits 31 gives the indefinite-length
\* marker for major types 2, 3, 4 and 5 and MisplacedBreakError for 0, 1, 6 and 7
C6_BreakForOtherMajors ==
    (pc = "decoded" /\ arg.kind = 4) =>
        IF arg.major \in 2..5 THEN out = Returned(PyInt(TRUE, <<1>>))
        ELSE out = Raised("MisplacedBreakError")

\* C6 amended: an initial byte with low five bits 31 gives the indefinite-length marker
\* for major types 2, 3, 4 and 5, BadInitialByteError for major types 0, 1 and 6, and
\* MisplacedBreakError for major type 7
C6_IndefiniteMarker ==
    (pc = "decoded" /\ arg.kind = 4) =>
        IF arg.major \in 2..5 THEN out = Returned(PyInt(TRUE, <<1>>))
        ELSE IF arg.major = 7 THEN out = Raised("MisplacedBreakError")
        ELSE out = Raised("BadInitialByteError")

\* 0xdf, a tag header with low five bits 31, has been refused as a bad initial byte
C6_Witness ==
    /\ pc = "decoded"
    /\ arg.kind = 4
    /\ arg.major = 6
    /\ buf = <<223>>
    /\ out = Raised("BadInitialByteError")

----------------------------------------------------------------------------
(* SpecDecode: loads() of raw bytes, then of a proper prefix of an accepted item and
   of an accepted item with bytes added after it *)

\* the bytes raw inputs are built from: 01, 18, 40, 41, 5f, 81, 9f, a1, bf and ff
Alphabet == {1, 24, 64, 65, 95, 129, 159, 161, 191, 255}

RawInputs == UNION {[1..n -> Alphabet] : n \in 0..MaxInputLen}

\* the initial bytes with low five bits 28..30, and 1f, 3f and df
BadInitialBytes == {ib \in 0..255 : ib % 32 \in 28..30} \cup {31, 63, 223}

\* what precedes a position where a data item is expected, besides the start of the
\* input: the header of a one-element list, of a one-entry map, that and its key, the
\* header of tag 6, and the opening of an indefinite-length map and its first key
DefiniteFrames == {<<129>>, <<161>>, <<161, 1>>, <<198>>}
IndefiniteFrames == {<<191, 1>>}
\* what precedes the item position of an indefinite-length list and the key position
\* of an indefinite-length map, where a break is the terminator
OpenFrames == {<<159>>, <<159, 1>>, <<191>>}

Nested(frames) == {<<>>} \cup frames \cup {f \o g : f \in frames, g \in frames}

\* the contexts a decoder with flags d.deterministic lets an item be read in: one
\* that rejects indefinite lengths never reads past their opening byte
ItemContexts(d) ==
    IF REALIZE_IL \in d.deterministic THEN Nested(DefiniteFrames)
    ELSE Nested(DefiniteFrames \cup IndefiniteFrames)
ElementContexts(d) ==
    IF REALIZE_IL \in d.deterministic THEN Nested(DefiniteFrames)
    ELSE Nested(DefiniteFrames \cup IndefiniteFrames \cup OpenFrames)

\* an indefinite-length string, list or map up to where its break is due
BreakContexts ==
    {<<95>>, <<95, 64>>, <<95, 65, 1>>, <<127>>, <<127, 97, 97>>,
     <<159>>, <<159, 1>>, <<159, 1, 1>>, <<191>>, <<191, 1, 1>>}

\* a bad initial byte or a break in every context, alone and followed by a byte
ReservedInputs ==
    {c \o <<ib>> \o t : c \in Nested(DefiniteFrames \cup IndefiniteFrames \cup OpenFrames),
                        ib \in BadInitialBytes \cup {255},
                        t \in {<<>>, <<1>>}}

BreakInputs == {c \o <<255>> : c \in BreakContexts}

\* what the encoder makes of its inputs
EncodedInputs == {encode(default_encoder_options, v).out : v \in EncoderInputs}

DecoderInputs == RawInputs \cup ReservedInputs \cup BreakInputs \cup EncodedInputs

\* the bytes added after an accepted item
Rests == {<<1>>, <<255>>, <<1, 1>>, <<255, 1>>}

IsPrefix(p, q) == Len(p) <= Len(q) /\ SubSeq(q, 1, Len(p)) = p

InitDecode ==
    /\ buf \in DecoderInputs
    /\ arg = [item |-> buf, value |-> PyNone]
    /\ dec \in {CBORDecoder(FALSE, check_eof, deterministic) :
                    check_eof \in BOOLEAN, deterministic \in {{}, {LENGTH, REALIZE_IL}}}
    /\ out = NoOutcome
    /\ yielded = <<>>
    /\ pc = "start"

\* loads(buf, check_eof=..., deterministic=...)
Decode ==
    /\ pc \in {"start", "truncated", "extended"}
    /\ LET r == decode(buf, dec)
       IN  /\ out' = Outcome(r)
           /\ dec' = r.d
    /\ pc' = IF pc = "start" THEN "decoded" ELSE "decoded_" \o pc
    /\ UNCHANGED <<arg, buf, yielded>>

\* the bytes were one whole item; a new decoder is handed a proper prefix of them
Truncate ==
    /\ pc = "decoded"
    /\ out.st = "ok"
    /\ dec.pos = Len(buf)
    /\ \E k \in 0..(Len(buf) - 1) : buf' = SubSeq(buf, 1, k)
    /\ arg' = [item |-> buf, value |-> out.val]
    /\ dec' = CBORDecoder(FALSE, dec.check_eof, dec.deterministic)
    /\ out' = NoOutcome
    /\ pc' = "truncated"
    /\ UNCHANGED yielded

\* the bytes were one whole item; a new decoder is handed them with more bytes after
Extend ==
    /\ pc = "decoded"
    /\ out.st = "ok"
    /\ dec.pos = Len(buf)
    /\ \E rest \in Rests : buf' = buf \o rest
    /\ arg' = [item |-> buf, value |-> out.val]
    /\ \E check_eof \in BOOLEAN : dec' = CBORDecoder(FALSE, check_eof, dec.deterministic)
    /\ out' = NoOutcome
    /\ pc' = "extended"
    /\ UNCHANGED yielded

NextDecode == Decode \/ Truncate \/ Extend

SpecDecode == InitDecode /\ [][NextDecode]_vars

\* C5: an item whose initial byte is one of 1c-1f, 3c-3f, 5c-5e, 7c-7e, 9c-9e, bc-be,
\* dc-df or fc-fe raises BadInitialByteError, at top level and inside lists, maps and
\* tags alike
C5_BadInitialByte ==
    pc = "decoded" =>
        \A c \in ElementContexts(dec) : \A ib \in BadInitialBytes :
            IsPrefix(c \o <<ib>>, buf) => out = Raised("BadInitialByteError")

\* 0xfc as the value of a map entry has been refused
C5_Witness ==
    /\ pc = "decoded"
    /\ buf = <<161, 1, 252, 1>>
    /\ out = Raised("BadInitialByteError")

\* C7: 0xff ends an indefinite-length string, list or map at chunk, item or key
\* position; read where a data item is expected (top level, element of a definite
\* list, key or value of a definite map, value of an indefinite map entry, tag
\* payload) it raises MisplacedBreakError, which nothing but a 0xff raises
C7_MisplacedBreak ==
    pc = "decoded" =>
        /\ \A c \in ItemContexts(dec) :
              IsPrefix(c \o <<255>>, buf) => out = Raised("MisplacedBreakError")
        /\ (REALIZE_IL \notin dec.deterministic /\ buf \in BreakInputs) => out.st = "ok"
        /\ out.st = "MisplacedBreakError" => (dec.pos >= 1 /\ buf[dec.pos] = 255)

\* the break in place of the value of an indefinite-length map's entry has been refused
C7_Witness ==
    /\ pc = "decoded"
    /\ buf = <<191, 1, 255>>
    /\ out = Raised("MisplacedBreakError")

\* C8: decoding a proper prefix (the empty one too) of one whole accepted item raises
\* UnexpectedEOFError and returns nothing; read(n) raises it exactly when fewer than
\* n bytes are left
C8_Truncation ==
    /\ pc = "decoded_truncated" => out = Raised("UnexpectedEOFError")
    /\ \A n \in 1..(MaxInputLen + 1) :
          read(buf, dec, n).err = (IF Len(buf) - dec.pos < n THEN "UnexpectedEOFError" ELSE "")

\* a map cut after its key has raised UnexpectedEOFError
C8_Witness ==
    /\ pc = "decoded_truncated"
    /\ arg.value.t = "dict"
    /\ Len(buf) = 2
    /\ Len(arg.item) = 3
    /\ out = Raised("UnexpectedEOFError")

\* C9: decode with check_eof raises UnconsumedDataError exactly when a byte is left
\* after the first whole item; without check_eof it returns that item and reads
\* nothing past its end
C9_CheckEof ==
    /\ pc = "decoded_extended" =>
          IF dec.check_eof THEN out = Raised("UnconsumedDataError")
          ELSE out = Returned(arg.value) /\ dec.pos = Len(arg.item)
    /\ (pc = "decoded" /\ out.st = "ok" /\ dec.check_eof) => dec.pos = Len(buf)
    /\ (pc \in {"decoded", "decoded_truncated"} /\ out.st = "UnconsumedDataError") =>
          LET first == decode_next_item(buf, CBORDecoder(FALSE, FALSE, dec.deterministic))
          IN  dec.check_eof /\ first.err = "" /\ first.d.pos < Len(buf)

\* bytes after a whole item have been refused by one decoder and left unread by another
C9_Witness ==
    /\ pc = "decoded_extended"
    /\ dec.check_eof
    /\ Len(arg.item) > 1
    /\ out = Raised("UnconsumedDataError")

----------------------------------------------------------------------------
(* SpecSeq: loads_sequence() of concatenated items, the last one whole or cut short *)

\* encodings of one item each and the values they stand for
SeqItems ==
    {[enc |-> <<0>>, val |-> PyNat(0)],
     [enc |-> <<24, 100>>, val |-> PyNat(100)],
     [enc |-> <<65, 1>>, val |-> PyBytes(<<1>>)],
     [enc |-> <<97, 97>>, val |-> PyStr(<<97>>)],
     [enc |-> <<129, 3>>, val |-> PyList(<<PyNat(3)>>)],
     [enc |-> <<159, 255>>, val |-> PyList(<<>>)],
     [enc |-> <<161, 1, 2>>, val |-> PyDict("dict", << <<PyNat(1), PyNat(2)>> >>)],
     [enc |-> <<244>>, val |-> PyBool(FALSE)]}

RECURSIVE Concat(_)
Concat(items) == IF items = <<>> THEN <<>> ELSE items[1].enc \o Concat(Tail(items))

\* the items and how many bytes of the last one the input keeps (0: all of every item)
SeqArgs ==
    {[items |-> s, cut |-> c] :
        s \in UNION {[1..n -> SeqItems] : n \in 0..MaxSeqItems}, c \in 0..2} 

InitSeq ==
    /\ arg \in {a \in SeqArgs :
                   a.cut # 0 => (a.items # <<>> /\ a.cut < Len(a.items[Len(a.items)].enc))}
    /\ buf = IF arg.cut = 0 THEN Concat(arg.items)
             ELSE Concat(SubSeq(arg.items, 1, Len(arg.items) - 1))
                  \o SubSeq(arg.items[Len(arg.items)].enc, 1, arg.cut)
    /\ dec = CBORDecoder(FALSE, TRUE, {})
    /\ out = NoOutcome
    /\ yielded = <<>>
    /\ pc = "start"

\* loads_sequence(buf): the generator is made; nothing is read yet
LoadsSequence ==
    /\ pc = "start"
    /\ pc' = "running"
    /\ UNCHANGED <<arg, buf, dec, out, yielded>>

\* next() on the generator
SeqNext ==
    /\ pc = "running"
    /\ LET s == decode_sequence(buf, dec)
       IN  /\ dec' = s.d
           /\ yielded' = IF s.kind = "yield" THEN Append(yielded, s.val) ELSE yielded
           /\ out' = IF s.kind \in {"yield", "return"} THEN out ELSE Raised(s.kind)
           /\ pc' = IF s.kind = "yield" THEN "running"
                    ELSE IF s.kind = "return" THEN "done" ELSE "raised"
    /\ UNCHANGED <<arg, buf>>

NextSeq == LoadsSequence \/ SeqNext

SpecSeq == InitSeq /\ [][NextSeq]_vars

\* the values of the items the input holds whole
WholeValues ==
    LET whole == IF arg.cut = 0 THEN Len(arg.items) ELSE Len(arg.items) - 1
    IN  [i \in 1..whole |-> arg.items[i].val]

\* C10: decode_sequence yields the values of the whole items in input order and
\* nothing else; it ends normally only after all of them when the input ends with an
\* item, and raises UnexpectedEOFError only after all of them when the input ends
\* inside an item
C10_Sequence ==
    /\ IsPrefix(yielded, WholeValues)
    /\ pc = "done" => (arg.cut = 0 /\ yielded = WholeValues /\ out = NoOutcome)
    /\ pc = "raised" =>
          (arg.cut # 0 /\ yielded = WholeValues /\ out = Raised("UnexpectedEOFError"))
    /\ pc \in {"start", "running"} => out = NoOutcome

\* two items have been yielded and the third, cut short, has raised
C10_Witness ==
    /\ pc = "raised"
    /\ Len(yielded) = 2
    /\ Len(arg.items) = 3
    /\ yielded[1].t = "list"


----------------------------------------------------------------------------
(* SpecDict: loads() of a map given by its keys, definite and indefinite length *)

\* the most keys a drawn map has
MaxKeys == 3

\* the keys maps are drawn from: 0, 1, false, true, 'a', [1] and [true], as bytes
\* and as the values they decode to at key position
MapKeys ==
    {[enc |-> <<0>>, val |-> PyNat(0)],
     [enc |-> <<1>>, val |-> PyNat(1)],
     [enc |-> <<244>>, val |-> PyBool(FALSE)],
     [enc |-> <<245>>, val |-> PyBool(TRUE)],
     [enc |-> <<97, 97>>, val |-> PyStr(<<97>>)],
     [enc |-> <<129, 1>>, val |-> PyTuple(<<PyNat(1)>>)],
     [enc |-> <<129, 245>>, val |-> PyTuple(<<PyBool(TRUE)>>)]}

KeyLists == UNION {[1..n -> MapKeys] : n \in 0..MaxKeys}

RECURSIVE MapBody(_, _)
\* the entries of a map with these keys: the i-th key maps to the integer i
MapBody(keys, i) ==
    IF i > Len(keys) THEN <<>> ELSE keys[i].enc \o <<i>> \o MapBody(keys, i + 1)

MapBytes(keys, il) ==
    IF il THEN <<191>> \o MapBody(keys, 1) \o <<255>>
    ELSE <<160 + Len(keys)>> \o MapBody(keys, 1)

InitDict ==
    /\ arg \in {[keys |-> keys, il |-> il] : keys \in KeyLists, il \in BOOLEAN}
    /\ buf = MapBytes(arg.keys, arg.il)
    /\ dec = CBORDecoder(FALSE, TRUE, {})
    /\ out = NoOutcome
    /\ yielded = <<>>
    /\ pc = "start"

\* loads(buf); a DuplicateKeyError is recorded with the keys its message lists
LoadsDict ==
    /\ pc = "start"
    /\ LET r == decode(buf, dec)
       IN  /\ out' = IF r.err = "DuplicateKeyError" THEN [st |-> r.err, val |-> r.val]
                     ELSE Outcome(r)
           /\ dec' = r.d
    /\ pc' = "decoded"
    /\ UNCHANGED <<arg, buf, yielded>>

NextDict == LoadsDict

SpecDict == InitDict /\ [][NextDict]_vars

\* the positions of the keys structurally equal to a key before them
RepeatedKeys(keys) == {j \in 1..Len(keys) : \E i \in 1..(j - 1) : keys[i].val = keys[j].val}

RECURSIVE KeysAt(_, _, _)
\* the keys at the positions of set ps, in input order
KeysAt(keys, ps, i) ==
    IF i > Len(keys) THEN <<>>
    ELSE (IF i \in ps THEN <<keys[i].val>> ELSE <<>>) \o KeysAt(keys, ps, i + 1)

\* C11: decode_dict raises DuplicateKeyError exactly when some key of the map is
\* structurally equal to an earlier key, for definite and indefinite maps alike; the
\* error lists every repeated key occurrence in input order; a map of pairwise
\* distinct keys decodes to the map of exactly those entries
C11_DuplicateKeys ==
    pc = "decoded" =>
        IF RepeatedKeys(arg.keys) # {}
        THEN out = [st |-> "DuplicateKeyError",
                    val |-> PyTuple(KeysAt(arg.keys, RepeatedKeys(arg.keys), 1))]
        ELSE out = Returned(PyDict("dict", [i \in 1..Len(arg.keys) |->
                                               <<arg.keys[i].val, PyNat(i)>>]))


----------------------------------------------------------------------------
(* SpecChunks: loads() of an indefinite-length string cut off after an arbitrary byte
   at chunk position *)

\* the most chunks before the byte under test
MaxChunks == 2

\* well-formed chunks of a byte string and of a text string: empty, and one byte
ByteChunks == {<<64>>, <<65, 1>>}
TextChunks == {<<96>>, <<97, 97>>}

RECURSIVE JoinAll(_)
\* b''.join(ss)
JoinAll(ss) == IF ss = <<>> THEN <<>> ELSE ss[1] \o JoinAll(Tail(ss))

ChunkLists(chunks) == UNION {[1..n -> chunks] : n \in 0..MaxChunks}

\* what follows the byte under test
ChunkTails == {<<>>, <<255>>, <<1>>}

\* the string stands at top level or as the only element of a list
ChunkFrames == {<<>>, <<129>>}

InitChunks ==
    /\ arg \in {[major |-> major, frame |-> frame, chunks |-> chunks, ib |-> ib, tail |-> tail] :
                    major \in {2}, frame \in ChunkFrames, chunks \in ChunkLists(ByteChunks),
                    ib \in 0..255, tail \in ChunkTails}
          \cup {[major |-> major, frame |-> frame, chunks |-> chunks, ib |-> ib, tail |-> tail] :
                    major \in {3}, frame \in ChunkFrames, chunks \in ChunkLists(TextChunks),
                    ib \in 0..255, tail \in ChunkTails}
    /\ buf = arg.frame \o <<32 * arg.major + 31>> \o JoinAll(arg.chunks) \o <<arg.ib>> \o arg.tail
    /\ dec \in {CBORDecoder(FALSE, TRUE, deterministic) : deterministic \in {{}, {LENGTH}}}
    /\ out = NoOutcome
    /\ yielded = <<>>
    /\ pc = "start"

\* loads(buf, deterministic=...)
LoadsChunks ==
    /\ pc = "start"
    /\ LET r == decode(buf, dec)
       IN  /\ out' = Outcome(r)
           /\ dec' = r.d
    /\ pc' = "decoded"
    /\ UNCHANGED <<arg, buf, yielded>>

NextChunks == LoadsChunks

SpecChunks == InitChunks /\ [][NextChunks]_vars

\* the initial bytes of a definite-length string of the major type: 40-5b, 60-7b
ChunkInitialBytes(major) == (32 * major)..(32 * major + 27)

\* C12: at chunk position inside an indefinite-length byte (text) string, an initial
\* byte outside 40-5b (60-7b) other than ff raises BadInitialByteError, 5f (7f), a
\* nested indefinite-length string of the same type, included; a byte inside the range
\* opens a chunk and ff ends the string, neither being refused as an initial byte
C12_ChunkInitialByte ==
    pc = "decoded" =>
        /\ arg.ib \notin ChunkInitialBytes(arg.major) \cup {255}
              => out = Raised("BadInitialByteError")
        /\ arg.ib \in ChunkInitialBytes(arg.major) \cup {255} /\ arg.tail # <<1>>
              => out.st # "BadInitialByteError"
        /\ arg.ib = 255 /\ arg.tail = <<>> /\ arg.frame = <<>>
              => out = Returned([t |-> IF arg.major = 2 THEN "bytes" ELSE "str",
                                 v |-> JoinAll([i \in 1..Len(arg.chunks) |-> Tail(arg.chunks[i])])])

\* a nested indefinite-length byte string after a one-byte chunk has been refused
C12_Witness ==
    /\ pc = "decoded"
    /\ buf = <<95, 65, 1, 95, 255>>
    /\ out = Raised("BadInitialByteError")


----------------------------------------------------------------------------
(* SpecIL: loads() of an indefinite-length string, list or map, then of the
   definite-length encoding of the same content *)

\* the items lists are drawn from: 1, b'\x01', [], an indefinite-length [] and {1: 2}
ILItems == {<<1>>, <<65, 1>>, <<128>>, <<159, 255>>, <<161, 1, 2>>}
\* the entries maps are drawn from: keys 1, 2 and 'a', values 1 and []
ILPairs == {k \o v : k \in {<<1>>, <<2>>, <<97, 97>>}, v \in {<<1>>, <<128>>}}

\* the parts between the opening byte and the break, by major type
ILParts ==
    [major \in 2..5 |->
        CASE major = 2 -> ChunkLists(ByteChunks)
          [] major = 3 -> ChunkLists(TextChunks)
          [] major = 4 -> ChunkLists(ILItems)
          [] major = 5 -> ChunkLists(ILPairs)]

\* where the item stands: top level, element of a list, key of a map
ILFrames == {[pre |-> <<>>, post |-> <<>>],
             [pre |-> <<129>>, post |-> <<>>],
             [pre |-> <<161>>, post |-> <<1>>]}

\* the indefinite-length encoding: opening byte, parts, break
IndefiniteForm(major, parts) == <<32 * major + 31>> \o JoinAll(parts) \o <<255>>

\* the definite-length encoding of the same content: a string's chunks joined under
\* one header, a list's items and a map's entries under their count
DefiniteForm(major, parts) ==
    IF major \in {2, 3}
    THEN LET payload == JoinAll([i \in 1..Len(parts) |-> Tail(parts[i])])
         IN  <<32 * major + Len(payload)>> \o payload
    ELSE <<32 * major + Len(parts)>> \o JoinAll(parts)

InitIL ==
    /\ arg \in {[major |-> major, parts |-> parts, frame |-> frame] :
                    major \in {2}, parts \in ILParts[2], frame \in ILFrames}
          \cup {[major |-> major, parts |-> parts, frame |-> frame] :
                    major \in {3}, parts \in ILParts[3], frame \in ILFrames}
          \cup {[major |-> major, parts |-> parts, frame |-> frame] :
                    major \in {4}, parts \in ILParts[4], frame \in ILFrames}
          \cup {[major |-> major, parts |-> parts, frame |-> frame] :
                    major \in {5}, parts \in ILParts[5], frame \in ILFrames}
    /\ buf = arg.frame.pre \o IndefiniteForm(arg.major, arg.parts) \o arg.frame.post
    /\ dec = CBORDecoder(FALSE, TRUE, {})
    /\ out = NoOutcome
    /\ yielded = <<>>
    /\ pc = "start"

\* loads(buf) of the indefinite-length form
LoadsIndefinite ==
    /\ pc = "start"
    /\ LET r == decode(buf, dec)
       IN  /\ out' = Outcome(r)
           /\ dec' = r.d
    /\ pc' = "indefinite"
    /\ UNCHANGED <<arg, buf, yielded>>

\* the result is kept and a new decoder is handed the definite-length form
Realize ==
    /\ pc = "indefinite"
    /\ yielded' = <<out>>
    /\ buf' = arg.frame.pre \o DefiniteForm(arg.major, arg.parts) \o arg.frame.post
    /\ dec' = CBORDecoder(FALSE, TRUE, {})
    /\ out' = NoOutcome
    /\ pc' = "definite"
    /\ UNCHANGED arg

\* loads(buf) of the definite-length form
LoadsDefinite ==
    /\ pc = "definite"
    /\ LET r == decode(buf, dec)
       IN  /\ out' = Outcome(r)
           /\ dec' = r.d
    /\ pc' = "both"
    /\ UNCHANGED <<arg, buf, yielded>>

NextIL == LoadsIndefinite \/ Realize \/ LoadsDefinite

SpecIL == InitIL /\ [][NextIL]_vars

\* C13: with no determinism flag set, an indefinite-length byte string, text string,
\* list or map decodes to what the definite-length encoding of the same content
\* decodes to: a string to its chunks joined in order, a list to as many items as
\* stand before the break
C13_IndefiniteAsDefinite ==
    /\ pc = "both" => yielded[1] = out
    /\ pc = "indefinite" /\ arg.frame.pre = <<>> =>
          /\ arg.major \in {2, 3} =>
                out = Returned([t |-> IF arg.major = 2 THEN "bytes" ELSE "str",
                                v |-> JoinAll([i \in 1..Len(arg.parts) |-> Tail(arg.parts[i])])])
          /\ arg.major = 4 => out.st = "ok" /\ out.val.t = "list" /\ Len(out.val.v) = Len(arg.parts)

\* the list [b'\x01', 1] has been decoded from both forms
C13_Witness ==
    /\ pc = "both"
    /\ arg.major = 4
    /\ buf = <<130, 65, 1, 1>>
    /\ out = Returned(PyList(<<PyBytes(<<1>>), PyNat(1)>>))
    /\ yielded = <<out>>


----------------------------------------------------------------------------
(* Claims stated over SpecDecode: the REALIZE_IL flag *)

\* the opening bytes of an indefinite-length byte string, text string, list and map
IndefiniteInitialBytes == {95, 127, 159, 191}

\* C14: with REALIZE_IL set, an indefinite-length byte string, text string, list or
\* map raises DeterministicError once its initial byte is read, at top level and
\* nested in definite-length lists, maps and tags, whatever follows that byte, nothing
\* included; with the flag clear no input raises DeterministicError on that ground
C14_RealizeIL ==
    pc \in {"decoded", "decoded_truncated", "decoded_extended"} =>
        /\ REALIZE_IL \in dec.deterministic =>
              \A c \in Nested(DefiniteFrames) : \A ib \in IndefiniteInitialBytes :
                  IsPrefix(c \o <<ib>>, buf) =>
                      out = Raised("DeterministicError") /\ dec.pos = Len(c) + 1
        /\ dec.deterministic = {} => out.st # "DeterministicError"

\* an indefinite-length map whose break is missing, as the value of a map entry, has
\* been refused at its opening byte
C14_Witness ==
    /\ pc = "decoded"
    /\ REALIZE_IL \in dec.deterministic
    /\ buf = <<161, 1, 191>>
    /\ out = Raised("DeterministicError")
    /\ dec.pos = 3

\* the same bytes with the break in place have been decoded with the flag clear
C14_WitnessClear ==
    /\ pc = "decoded"
    /\ dec.deterministic = {}
    /\ buf = <<129, 159, 255>>
    /\ out = Returned(PyList(<<PyList(<<>>)>>))


----------------------------------------------------------------------------
(* SpecFloat: loads() of a float at 2, 4 and 8 bytes, with and without the FLOAT flag *)

\* n zero bits
ZeroBits(n) == [i \in 1..n |-> 0]

RECURSIVE NatToBits(_, _)
\* the natural n in w bits
NatToBits(n, w) == IF w = 0 THEN <<>> ELSE NatToBits(n \div 2, w - 1) \o <<n % 2>>

RECURSIVE BitsToBytes(_)
BitsToBytes(bits) ==
    IF bits = <<>> THEN <<>>
    ELSE <<BitsToNat(SubSeq(bits, 1, 8))>> \o BitsToBytes(SubSeq(bits, 9, Len(bits)))

\* the IEEE 754 bytes of a float given by its fields
FloatBytes(f) == BitsToBytes(<<f.sign>> \o NatToBits(f.exponent, f.ebits) \o f.fraction)

\* the float of raw in the format of length bytes, length >= Len(raw): the same
\* value, and for a NaN the same sign and the payload continued with zero bits
Widen(raw, length) ==
    LET f == unpack_be_float(raw)
        ebits == ExponentBits(length)
        mbits == 8 * length - 1 - ebits
        bias == 2^(ebits - 1) - 1
        pad == ZeroBits(mbits - Len(f.fraction))
        \* a subnormal: the zeros before its first one bit
        lead == CHOOSE z \in 0..Len(f.fraction) :
                    /\ \A i \in 1..z : f.fraction[i] = 0
                    /\ (z < Len(f.fraction) => f.fraction[z + 1] = 1)
    IN  IF length = Len(raw) THEN raw
        ELSE IF f.exponent = 2^f.ebits - 1
             THEN FloatBytes([sign |-> f.sign, ebits |-> ebits, exponent |-> 2^ebits - 1,
                              fraction |-> f.fraction \o pad])
        ELSE IF f.exponent > 0
             THEN FloatBytes([sign |-> f.sign, ebits |-> ebits,
                              exponent |-> f.exponent - (2^(f.ebits - 1) - 1) + bias,
                              fraction |-> f.fraction \o pad])
        ELSE IF lead = Len(f.fraction)
             THEN FloatBytes([sign |-> f.sign, ebits |-> ebits, exponent |-> 0,
                              fraction |-> ZeroBits(mbits)])
        ELSE FloatBytes([sign |-> f.sign, ebits |-> ebits,
                         exponent |-> (2 - 2^(f.ebits - 1)) - (lead + 1) + bias,
                         fraction |-> SubSeq(f.fraction, lead + 2, Len(f.fraction))
                                      \o ZeroBits(mbits - Len(f.fraction) + lead + 1)])

\* the floats drawn at a width: either sign; exponent all zeros (zero, subnormals),
\* 1, the bias (1.0 to 2.0), the largest finite, all ones (infinities, NaNs);
\* fraction zero, its top bit, its lowest bit, both
FloatsAt(length) ==
    LET ebits == ExponentBits(length)
        mbits == 8 * length - 1 - ebits
    IN  {FloatBytes([sign |-> sign, ebits |-> ebits, exponent |-> exponent,
                     fraction |-> [i \in 1..mbits |-> IF i = 1 THEN top
                                                      ELSE IF i = mbits THEN low ELSE 0]]) :
            sign \in {0, 1},
            exponent \in {0, 1, 2^(ebits - 1) - 1, 2^ebits - 2, 2^ebits - 1},
            top \in {0, 1}, low \in {0, 1}}

\* a float of some width, encoded at that width or at a wider one
FloatInputs ==
    {[base |-> base, raw |-> Widen(base, length)] :
        base \in FloatsAt(2), length \in {2, 4, 8}}
    \cup {[base |-> base, raw |-> Widen(base, length)] :
        base \in FloatsAt(4), length \in {4, 8}}
    \cup {[base |-> base, raw |-> base] : base \in FloatsAt(8)}

\* the initial byte of a float of length bytes: f9, fa, fb
FloatInitialByte(length) == IF length = 2 THEN 249 ELSE IF length = 4 THEN 250 ELSE 251

InitFloat ==
    /\ arg \in {[base |-> f.base, raw |-> f.raw, frame |-> frame] :
                    f \in FloatInputs, frame \in {<<>>, <<129>>}}
    /\ buf = arg.frame \o <<FloatInitialByte(Len(arg.raw))>> \o arg.raw
    /\ dec \in {CBORDecoder(FALSE, TRUE, deterministic) : deterministic \in {{}, {FLOAT}}}
    /\ out = NoOutcome
    /\ yielded = <<>>
    /\ pc = "start"

\* loads(buf, deterministic=...)
LoadsFloat ==
    /\ pc = "start"
    /\ LET r == decode(buf, dec)
       IN  /\ out' = Outcome(r)
           /\ dec' = r.d
    /\ pc' = "decoded"
    /\ UNCHANGED <<arg, buf, yielded>>

NextFloat == LoadsFloat

SpecFloat == InitFloat /\ [][NextFloat]_vars

\* C15: with FLOAT set, a float encoded wider than a width of 2, 4 or 8 bytes that
\* holds its value raises DeterministicError, and so does a NaN in any bit pattern
\* other than f9 7e 00, the other 2-byte NaN patterns included
C15_FloatDeterminism ==
    pc = "decoded" /\ FLOAT \in dec.deterministic =>
        /\ ~IsNaN(unpack_be_float(arg.raw)) /\ Len(arg.raw) > Len(arg.base)
              => out = Raised("DeterministicError")
        /\ IsNaN(unpack_be_float(arg.raw)) /\ arg.raw # <<126, 0>>
              => out = Raised("DeterministicError")


----------------------------------------------------------------------------
(* SpecTag: loads() of a tagged item, with and without handlers in tag_decoders *)

\* the tags drawn: 2 and 3 have default handlers, 6 and 800 have none
TagInputs ==
    {[num |-> 2, enc |-> <<194>>], [num |-> 3, enc |-> <<195>>],
     [num |-> 6, enc |-> <<198>>], [num |-> 800, enc |-> <<217, 3, 32>>]}

\* the payloads drawn: b'\x01', 'tag', 1, [1] and b''
TagPayloads == {<<65, 1>>, <<99, 116, 97, 103>>, <<1>>, <<129, 1>>, <<64>>}

\* the tag_decoders a caller passes: none, one for tag 2 or tag 800, one for each
TagDecoders ==
    {<<>>, 2 :> "last" @@ 800 :> "tagged"}
    \cup {t :> h : t \in {2, 800}, h \in {"last", "tagged"}}

InitTag ==
    /\ arg \in {[tag |-> tag, payload |-> payload, frame |-> frame] :
                    tag \in TagInputs, payload \in TagPayloads, frame \in {<<>>, <<129>>}}
    /\ buf = arg.frame \o arg.tag.enc \o arg.payload
    /\ dec \in {[CBORDecoder(FALSE, TRUE, {}) EXCEPT !.custom_tag_decoders = tag_decoders] :
                    tag_decoders \in TagDecoders}
    /\ out = NoOutcome
    /\ yielded = <<>>
    /\ pc = "start"

\* loads(buf, tag_decoders=...)
LoadsTag ==
    /\ pc = "start"
    /\ LET r == decode(buf, dec)
       IN  /\ out' = Outcome(r)
           /\ dec' = r.d
    /\ pc' = "decoded"
    /\ UNCHANGED <<arg, buf, yielded>>

NextTag == LoadsTag

SpecTag == InitTag /\ [][NextTag]_vars

\* what a list of one element makes of the element's outcome
InFrame(frame, o) ==
    IF frame = <<>> \/ o.st # "ok" THEN o ELSE Returned(PyList(<<o.val>>))

\* C16: for tag number t decode_tag calls the caller's tag_decoders[t] if there is
\* one, a default handler for t or not; otherwise the default handler for t if
\* there is one; otherwise it returns CBORTag(t, payload), so that a tag number
\* without any handler raises nothing by itself
C16_TagHandlerResolution ==
    pc = "decoded" =>
        LET t == arg.tag.num
            d0 == [dec EXCEPT !.pos = 0]
            payload == decode_next_item(arg.payload, d0)
        IN  out = InFrame(arg.frame,
                IF t \in DOMAIN dec.custom_tag_decoders
                THEN Outcome(tag_handler(arg.payload, d0, dec.custom_tag_decoders[t], NatToDigits(t)))
                ELSE IF t \in {2, 3} THEN Outcome(decode_bignum(arg.payload, d0, t))
                ELSE Returned(PyTag(NatToDigits(t), payload.val)))

\* the caller's handler for tag 2 has been called in place of decode_bignum
C16_Witness ==
    /\ pc = "decoded"
    /\ buf = <<194, 65, 1>>
    /\ 2 \in DOMAIN dec.custom_tag_decoders
    /\ dec.custom_tag_decoders[2] = "tagged"
    /\ out = Returned(PyTuple(<<PyNat(2), PyBytes(<<1>>)>>))

\* tag 800, for which nobody has a handler, has been returned as a CBORTag
C16_WitnessUnknown ==
    /\ pc = "decoded"
    /\ buf = <<217, 3, 32, 99, 116, 97, 103>>
    /\ dec.custom_tag_decoders = <<>>
    /\ out = Returned(PyTag(NatToDigits(800), PyStr(<<116, 97, 103>>)))


----------------------------------------------------------------------------
(* SpecShared: loads() of a list or map marked shared (tag 28) that refers to itself
   (tag 29) inside its own contents *)

\* the most elements the shared container has
MaxElems == 2

\* what an element is: 1, a reference, or a reference inside a list, a map or tag 6
ElemKinds == {"one", "ref", "inlist", "inmap", "intag"}

\* the bytes of d8 1d n, a reference to shared ID n
RefBytes(n) == <<216, 29, n>>

ElemBytes(kind, own) ==
    CASE kind = "one" -> <<1>>
      [] kind = "ref" -> RefBytes(own)
      [] kind = "inlist" -> <<129>> \o RefBytes(own)
      [] kind = "inmap" -> <<161, 1>> \o RefBytes(own)
      [] kind = "intag" -> <<198>> \o RefBytes(own)

\* the element with the reference resolved to the object of shared ID own
ElemValue(kind, own) ==
    CASE kind = "one" -> PyNat(1)
      [] kind = "ref" -> PyRef(own)
      [] kind = "inlist" -> PyList(<<PyRef(own)>>)
      [] kind = "inmap" -> PyDict("dict", << <<PyNat(1), PyRef(own)>> >>)
      [] kind = "intag" -> PyTag(<<6>>, PyRef(own))

RECURSIVE ContainerBody(_, _, _, _)
\* the elements of a list, or the entries i: element of a map
ContainerBody(map, elems, own, i) ==
    IF i > Len(elems) THEN <<>>
    ELSE (IF map THEN <<i>> ELSE <<>>) \o ElemBytes(elems[i], own)
         \o ContainerBody(map, elems, own, i + 1)

\* tag 28 and the container, of definite or indefinite length
SharedBytes(a) ==
    <<216, 28>>
    \o (IF a.il THEN <<IF a.map THEN 191 ELSE 159>>
        ELSE <<(IF a.map THEN 160 ELSE 128) + Len(a.elems)>>)
    \o ContainerBody(a.map, a.elems, a.own, 1)
    \o (IF a.il THEN <<255>> ELSE <<>>)

\* the container is the top-level item, the first one marked shared, or the second
\* element of a list whose first element 1 is marked shared before it
InitShared ==
    /\ arg \in {[map |-> map, il |-> il, elems |-> elems, own |-> own] :
                    map \in BOOLEAN, il \in BOOLEAN, own \in {0, 1},
                    elems \in UNION {[1..n -> ElemKinds] : n \in 0..MaxElems}}
    /\ buf = (IF arg.own = 0 THEN <<>> ELSE <<130, 216, 28, 1>>) \o SharedBytes(arg)
    /\ dec = CBORDecoder(FALSE, TRUE, {})
    /\ out = NoOutcome
    /\ yielded = <<>>
    /\ pc = "start"

\* loads(buf)
LoadsShared ==
    /\ pc = "start"
    /\ LET r == decode(buf, dec)
       IN  /\ out' = Outcome(r)
           /\ dec' = r.d
    /\ pc' = "decoded"
    /\ UNCHANGED <<arg, buf, yielded>>

NextShared == LoadsShared

SpecShared == InitShared /\ [][NextShared]_vars

\* the container decoded, every reference in it being the container itself
SharedContainer(a) ==
    Construct(IF a.map THEN "dict" ELSE "list", a.own,
              [i \in 1..Len(a.elems) |->
                  IF a.map THEN <<PyNat(i), ElemValue(a.elems[i], a.own)>>
                  ELSE ElemValue(a.elems[i], a.own)])

\* C17: a list or map wrapped in tag 28 and decoded in mutable mode stands in the
\* table of shared values under the tag's ID from before its contents are read, and
\* a tag 29 reference to that ID anywhere in the contents, directly or inside a
\* nested list, map or tag, is that same object: the container contains itself
C17_CyclicContainer ==
    pc = "decoded" =>
        /\ out = Returned(IF arg.own = 0 THEN SharedContainer(arg)
                          ELSE PyList(<<PyNat(1), SharedContainer(arg)>>))
        /\ arg.own \in DOMAIN dec.shared_ids
        /\ dec.shared_ids[arg.own] = SharedContainer(arg)
        /\ SharedContainer(arg).id = arg.own

\* the map {1: 1, 2: m}, m the map itself, has been decoded
C17_Witness ==
    /\ pc = "decoded"
    /\ buf = <<216, 28, 162, 1, 1, 2, 216, 29, 0>>
    /\ out = Returned([t |-> "dict", id |-> 0,
                       v |-> << <<PyNat(1), PyNat(1)>>, <<PyNat(2), PyRef(0)>> >>])


----------------------------------------------------------------------------
(* SpecSharedSeq: loads_sequence() of top-level items that mark values shared and
   refer to shared values *)

\* the top-level items drawn: 1; 1 marked shared; a reference to shared ID 0; a
\* one-element list marked shared whose element is a reference to shared ID 0
SharedSeqItems == {<<1>>, <<216, 28, 1>>, RefBytes(0), <<216, 28, 129>> \o RefBytes(0)}

InitSharedSeq ==
    /\ arg \in {[items |-> items, cut |-> 0] :
                    items \in UNION {[1..n -> SharedSeqItems] : n \in 0..MaxSeqItems}}
    /\ buf = JoinAll(arg.items)
    /\ dec = CBORDecoder(FALSE, TRUE, {})
    /\ out = NoOutcome
    /\ yielded = <<>>
    /\ pc = "start"

SpecSharedSeq == InitSharedSeq /\ [][NextSeq]_vars

\* what loads() makes of the item alone, its table of shared values empty at the start
Alone(item) == Outcome(decode(item, CBORDecoder(FALSE, TRUE, {})))

\* C18: every top-level item of a sequence is decoded with a table of shared values
\* that is empty at its start: its first tag 28 gets ID 0 and a tag 29 in it never
\* finds a value marked shared in an earlier item, so each item comes out as it does
\* when decoded alone
C18_FreshTablePerItem ==
    /\ \A i \in 1..Len(yielded) : Alone(arg.items[i]) = Returned(yielded[i])
    /\ pc = "raised" => Alone(arg.items[Len(yielded) + 1]) = out
    /\ pc = "done" => Len(yielded) = Len(arg.items)


----------------------------------------------------------------------------
(* SpecSort: encode() of a dict, and of the dict with the same entries inserted in
   another order, under the LEXICOGRAPHIC sort method *)

\* the most entries a drawn dict has
MaxEntries == 3

\* the entries dicts are drawn from, the keys those of test_sorting: each key, its
\* value, and the bytes the two encode to
SortEntries ==
    {[key |-> PyStr(<<97, 97>>), value |-> PyNone, kenc |-> <<98, 97, 97>>, venc |-> <<246>>],
     [key |-> PyStr(<<122>>), value |-> PyNat(1), kenc |-> <<97, 122>>, venc |-> <<1>>],
     [key |-> PyNat(100), value |-> PyNone, kenc |-> <<24, 100>>, venc |-> <<246>>],
     [key |-> PyTuple(<<PyInt(TRUE, <<1>>)>>), value |-> PyList(<<>>),
      kenc |-> <<129, 32>>, venc |-> <<128>>],
     [key |-> PyInt(TRUE, <<1>>), value |-> PyNone, kenc |-> <<32>>, venc |-> <<246>>],
     [key |-> PyTuple(<<PyNat(100)>>), value |-> PyNat(1),
      kenc |-> <<129, 24, 100>>, venc |-> <<1>>],
     [key |-> PyBool(FALSE), value |-> PyNone, kenc |-> <<244>>, venc |-> <<246>>],
     [key |-> PyNat(10), value |-> PyStr(<<122>>), kenc |-> <<10>>, venc |-> <<97, 122>>]}

\* the entries of a dict in insertion order: no key twice
Insertions ==
    {s \in UNION {[1..n -> SortEntries] : n \in 0..MaxEntries} :
        \A i, j \in 1..Len(s) : i # j => s[i] # s[j]}

\* the same entries inserted in another order
Reorderings(s) ==
    {t \in [1..Len(s) -> {s[i] : i \in 1..Len(s)}] :
        t # s /\ \A i, j \in 1..Len(s) : i # j => t[i] # t[j]}

\* the dict object of the entries
DictValue(s) == PyDict("dict", [i \in 1..Len(s) |-> <<s[i].key, s[i].value>>])

InitSort ==
    /\ arg \in {[value |-> DictValue(s), entries |-> s] : s \in Insertions}
    /\ buf = <<>>
    /\ dec = CBORDecoder(FALSE, TRUE, {})
    /\ out = NoOutcome
    /\ yielded = <<>>
    /\ pc = "start"

\* CBOREncoder().encode(value), sort_method LEXICOGRAPHIC
EncodeDict ==
    /\ pc \in {"start", "reordered"}
    /\ LET e == encode(default_encoder_options, arg.value)
       IN  /\ buf' = e.out
           /\ out' = IF e.err = "" THEN out ELSE Raised(e.err)
    /\ pc' = IF pc = "start" THEN "encoded" ELSE "encoded_again"
    /\ UNCHANGED <<arg, dec, yielded>>

\* the bytes are kept; a dict with the same entries is built in another order
Reinsert ==
    /\ pc = "encoded"
    /\ \E t \in Reorderings(arg.entries) : arg' = [value |-> DictValue(t), entries |-> t]
    /\ yielded' = <<PyBytes(buf)>>
    /\ buf' = <<>>
    /\ pc' = "reordered"
    /\ UNCHANGED <<dec, out>>

NextSort == EncodeDict \/ Reinsert

SpecSort == InitSort /\ [][NextSort]_vars

\* a comes before b in bytewise order: at the first difference a has the smaller
\* byte, or a is a proper prefix of b
BytewiseBefore(a, b) ==
    \E k \in 0..Len(a) :
        /\ k <= Len(b)
        /\ \A i \in 1..k : a[i] = b[i]
        /\ \/ k = Len(a) /\ k < Len(b)
           \/ k < Len(a) /\ k < Len(b) /\ a[k + 1] < b[k + 1]

\* the entries s encoded one after the other, each key followed by its value
EntryBytes(s) == JoinAll([i \in 1..Len(s) |-> s[i].kenc \o s[i].venc])

----------------------------------------------------------------------------
(* SpecCyclic: encode() of a list or dict that may contain itself *)

\* what an element of the aggregate is: 1, the aggregate itself, or a list or a dict
\* holding the aggregate
CyclicElemKinds == {"one", "ref", "inlist", "inmap"}

\* the aggregate is the object with identity 0; PyRef(0) in it is that object
InitCyclic ==
    /\ arg \in {[map |-> map, il |-> FALSE, own |-> 0, elems |-> elems, sort_method |-> m] :
                    map \in BOOLEAN, m \in {LEXICOGRAPHIC, LENGTH_FIRST},
                    elems \in UNION {[1..n -> CyclicElemKinds] : n \in 0..MaxElems}}
    /\ buf = <<>>
    /\ dec = CBORDecoder(FALSE, TRUE, {})
    /\ out = NoOutcome
    /\ yielded = <<>>
    /\ pc = "start"

\* CBOREncoder(CBOREncoderOptions(sort_method=...)).encode(value)
EncodeCyclic ==
    /\ pc = "start"
    /\ LET e == encode([default_encoder_options EXCEPT !.sort_method = arg.sort_method],
                       SharedContainer(arg))
       IN  IF e.err = "" THEN /\ buf' = e.out
                              /\ out' = out
                              /\ pc' = "encoded"
           ELSE /\ buf' = buf
                /\ out' = Raised(e.err)
                /\ pc' = "failed"
    /\ UNCHANGED <<arg, dec, yielded>>

NextCyclic == EncodeCyclic

SpecCyclic == InitCyclic /\ [][NextCyclic]_vars

\* the aggregate contains itself, directly or inside a nested list or dict
SelfReferential(a) == \E i \in 1..Len(a.elems) : a.elems[i] # "one"

\* C20: encoding an aggregate that contains itself ends with an encoding error
\* (EncodingError, CBOREncodingError in the encoder's own naming) and returns no bytes
C20_SelfReferenceFails ==
    pc \in {"encoded", "failed"} /\ SelfReferential(arg) =>
        /\ pc = "failed"
        /\ out.st \in {"EncodingError", "CBOREncodingError"}
        /\ buf = <<>>

----------------------------------------------------------------------------
(* C21: the elements of a list *)

\* the encodings of the elements of list s, one after the other in element order
ElementEncodings(s) ==
    Flatten([i \in 1..Len(s) |-> encode(default_encoder_options, s[i]).out])

\* C21: a list is encoded as the definite-length list header for its number of
\* elements followed by the encodings of its elements in element order; the sort
\* method does not reorder them
C21_ListElementOrder ==
    pc = "encoded" /\ arg.value.t = "list" =>
        buf = pack_cbor_length(NatToDigits(Len(arg.value.v)), 128).out
              \o ElementEncodings(arg.value.v)

----------------------------------------------------------------------------
(* SpecArray: loads() of a typed-array tag (64..87) and its payload *)

\* the longest byte string drawn as the payload of a typed-array tag
MaxArrayBytes == 8

\* a definite-length byte string of n bytes (n < 24): 1, 2, ..., n or all zero
ArrayByteStrings ==
    {<<64 + n>> \o [i \in 1..n |-> i * k] : n \in 0..MaxArrayBytes, k \in {0, 1}}

\* payloads that are not byte strings: 1, the text 'a', [], {}, and an
\* indefinite-length byte string (which is one) of two chunks
OtherArrayPayloads == {<<1>>, <<97, 97>>, <<128>>, <<160>>, <<95, 65, 1, 65, 2, 255>>}

InitArray ==
    /\ arg \in {[tag |-> tag, payload |-> payload] :
                    tag \in 64..87, payload \in ArrayByteStrings \cup OtherArrayPayloads}
    /\ buf = <<216, arg.tag>> \o arg.payload
    /\ dec = CBORDecoder(FALSE, TRUE, {})
    /\ out = NoOutcome
    /\ yielded = <<>>
    /\ pc = "start"

\* loads(buf)
LoadsArray ==
    /\ pc = "start"
    /\ LET r == decode(buf, dec)
       IN  /\ out' = Outcome(r)
           /\ dec' = r.d
    /\ pc' = "decoded"
    /\ UNCHANGED <<arg, buf, yielded>>

NextArray == LoadsArray

SpecArray == InitArray /\ [][NextArray]_vars

\* the length of the byte string a payload is, -1 if it is not one
PayloadLength(payload) ==
    IF payload \in ArrayByteStrings THEN Len(payload) - 1
    ELSE IF payload[1] = 95 THEN 2
    ELSE -1

\* C22: decoding a typed-array tag whose payload is not a byte string, or is a byte
\* string whose length is not a multiple of the tag's element width, fails with
\* TagError; no other exception escapes
C22_TypedArrayLength ==
    pc = "decoded" /\ arg.tag \in DOMAIN typed_array_decoder_hints =>
        LET length == PayloadLength(arg.payload)
        IN  length = -1 \/ length % typed_array_decoder_hints[arg.tag].itemsize # 0
                => out = Raised("TagError")

----------------------------------------------------------------------------
(* SpecOrdered: loads() of a list of maps, some of them wrapped in tag 272 *)

\* the most items of the list
MaxOrderedItems == 3

\* tag 272
Tag272 == <<217, 1, 16>>

\* the items drawn.  kind "map" is a map that no tag 272 wraps, "ordered" is tag 272
\* and the map it wraps (empty, with a map as a value, with a map as a key),
\* "ordered_ref" is tag 272 wrapping a reference to shared value 0
OrderedItems ==
    {[kind |-> "int", enc |-> <<1>>],
     [kind |-> "map", enc |-> <<160>>],
     [kind |-> "map", enc |-> <<161, 1, 2>>],
     [kind |-> "map", enc |-> <<216, 28, 160>>],
     [kind |-> "ordered", enc |-> Tag272 \o <<160>>],
     [kind |-> "ordered", enc |-> Tag272 \o <<161, 1, 160>>],
     [kind |-> "ordered", enc |-> Tag272 \o <<161, 160, 1>>],
     [kind |-> "ordered_ref", enc |-> Tag272 \o <<216, 29, 0>>]}

InitOrdered ==
    /\ arg \in {[items |-> items] :
                    items \in UNION {[1..n -> OrderedItems] : n \in 1..MaxOrderedItems}}
    /\ buf = <<128 + Len(arg.items)>> \o JoinAll([i \in 1..Len(arg.items) |-> arg.items[i].enc])
    /\ dec = CBORDecoder(FALSE, TRUE, {})
    /\ out = NoOutcome
    /\ yielded = <<>>
    /\ pc = "start"

\* loads(buf)
LoadsOrdered ==
    /\ pc = "start"
    /\ LET r == decode(buf, dec)
       IN  /\ out' = Outcome(r)
           /\ dec' = r.d
    /\ pc' = "decoded"
    /\ UNCHANGED <<arg, buf, yielded>>

NextOrdered == LoadsOrdered

SpecOrdered == InitOrdered /\ [][NextOrdered]_vars

\* the maps directly inside map m, as keys or as values, are plain unordered ones
NestedUnordered(m) ==
    \A i \in 1..Len(m.v) : \A j \in 1..2 :
        m.v[i][j].t \in DictKinds => m.v[i][j].t \in {"dict", "FrozenDict"}

\* C23: tag 272 makes exactly the map it wraps an ordered map: the maps nested in it
\* and the maps decoded after it, also after a tag 272 whose payload is a map reached
\* through a shared reference, are plain unordered maps, and the ORDERED flag is
\* clear when decoding has returned
C23_OrderedOnlyWrapped ==
    pc = "decoded" /\ out.st = "ok" =>
        /\ ORDERED \notin dec.flags
        /\ \A i \in 1..Len(arg.items) :
              /\ arg.items[i].kind = "map" => out.val.v[i].t = "dict"
              /\ arg.items[i].kind = "ordered" =>
                    out.val.v[i].t = "OrderedDict" /\ NestedUnordered(out.val.v[i])

----------------------------------------------------------------------------
(* SpecKeys: loads() of [{key: value}, item] where the key holds nested containers *)

\* the deepest nesting of containers in the key
MaxKeyDepth == 3

\* tag 258
Tag258 == <<217, 1, 2>>

RECURSIVE KeyForms(_)
\* the keys of nesting depth at most n: the bytes, and the value with every list a
\* tuple, every map a FrozenDict and every set a frozenset.  A key is an empty list,
\* map or set, or a list (definite or indefinite), map (as key or as value), set or
\* tag 6 holding a key
KeyForms(n) ==
    IF n <= 1
    THEN {[enc |-> <<128>>, val |-> PyTuple(<<>>)],
          [enc |-> <<160>>, val |-> PyDict("FrozenDict", <<>>)],
          [enc |-> Tag258 \o <<128>>, val |-> PySet("frozenset", <<>>)]}
    ELSE KeyForms(n - 1) \cup UNION {
            {[enc |-> <<129>> \o k.enc, val |-> PyTuple(<<k.val>>)],
             [enc |-> <<159>> \o k.enc \o <<255>>, val |-> PyTuple(<<k.val>>)],
             [enc |-> <<161, 1>> \o k.enc,
              val |-> PyDict("FrozenDict", << <<PyNat(1), k.val>> >>)],
             [enc |-> <<161>> \o k.enc \o <<1>>,
              val |-> PyDict("FrozenDict", << <<k.val, PyNat(1)>> >>)],
             [enc |-> Tag258 \o <<129>> \o k.enc, val |-> PySet("frozenset", <<k.val>>)],
             [enc |-> <<198>> \o k.enc, val |-> PyTag(<<6>>, k.val)]} : k \in KeyForms(n - 1)}

\* the values and following items drawn, and what they are in mutable mode: 1, [],
\* {}, set(), [[]] and {(): []}
ValueForms ==
    {[enc |-> <<1>>, val |-> PyNat(1)],
     [enc |-> <<128>>, val |-> PyList(<<>>)],
     [enc |-> <<160>>, val |-> PyDict("dict", <<>>)],
     [enc |-> Tag258 \o <<128>>, val |-> PySet("set", <<>>)],
     [enc |-> <<129, 128>>, val |-> PyList(<<PyList(<<>>)>>)],
     [enc |-> <<161, 128, 128>>, val |-> PyDict("dict", << <<PyTuple(<<>>), PyList(<<>>)>> >>)]}

InitKeys ==
    /\ arg \in {[key |-> key, value |-> value, after |-> after, il |-> il] :
                    key \in KeyForms(MaxKeyDepth), value \in ValueForms,
                    after \in ValueForms, il \in BOOLEAN}
    /\ buf = <<130>> \o (IF arg.il THEN <<191>> ELSE <<161>>) \o arg.key.enc \o arg.value.enc
             \o (IF arg.il THEN <<255>> ELSE <<>>) \o arg.after.enc
    /\ dec = CBORDecoder(FALSE, TRUE, {})
    /\ out = NoOutcome
    /\ yielded = <<>>
    /\ pc = "start"

\* loads(buf)
LoadsKeys ==
    /\ pc = "start"
    /\ LET r == decode(buf, dec)
       IN  /\ out' = Outcome(r)
           /\ dec' = r.d
    /\ pc' = "decoded"
    /\ UNCHANGED <<arg, buf, yielded>>

NextKeys == LoadsKeys

SpecKeys == InitKeys /\ [][NextKeys]_vars

\* C24: in a map decoded in mutable mode every list, map and set nested at any depth
\* in a key is a tuple, a frozen map or a frozenset, and the value paired with the
\* key and the item after the map are decoded as in mutable mode (list, dict, set),
\* with the flags that were in force before the key was read
C24_ImmutableKeyScope ==
    pc = "decoded" =>
        /\ out = Returned(PyList(<<PyDict("dict", << <<arg.key.val, arg.value.val>> >>),
                                   arg.after.val>>))
        /\ dec.flags = {}

\* a key three containers deep, with a mutable value and a mutable item after it
C24_Witness ==
    /\ pc = "decoded"
    /\ out.st = "ok"
    /\ arg.key.enc = <<129>> \o Tag258 \o <<129, 160>>
    /\ arg.value.val.t = "list"
    /\ arg.after.val.t = "set"

----------------------------------------------------------------------------
(* SpecLengthFirst: encode() of a dict under the LENGTH_FIRST sort method *)

InitLengthFirst ==
    /\ arg \in {[value |-> DictValue(s), entries |-> s] : s \in Insertions}
    /\ buf = <<>>
    /\ dec = CBORDecoder(FALSE, TRUE, {})
    /\ out = NoOutcome
    /\ yielded = <<>>
    /\ pc = "start"

\* CBOREncoder(CBOREncoderOptions(sort_method=CBORSortMethod.LENGTH_FIRST)).encode(value)
EncodeLengthFirst ==
    /\ pc = "start"
    /\ LET e == encode([default_encoder_options EXCEPT !.sort_method = LENGTH_FIRST],
                       arg.value)
       IN  IF e.err = "" THEN /\ buf' = e.out
                              /\ out' = out
                              /\ pc' = "encoded"
           ELSE /\ buf' = buf
                /\ out' = Raised(e.err)
                /\ pc' = "failed"
    /\ UNCHANGED <<arg, dec, yielded>>

NextLengthFirst == EncodeLengthFirst

SpecLengthFirst == InitLengthFirst /\ [][NextLengthFirst]_vars

\* C25: under LENGTH_FIRST the encoding of a dict succeeds and is the map header and
\* then the entries ordered by the length of the encoded key, and bytewise among
\* encoded keys of the same length
C25_LengthFirstMapOrder ==
    pc # "start" =>
        /\ pc = "encoded"
        /\ \E t \in Reorderings(arg.entries) \cup {arg.entries} :
              /\ \A i \in 1..(Len(t) - 1) :
                    \/ Len(t[i].kenc) < Len(t[i + 1].kenc)
                    \/ /\ Len(t[i].kenc) = Len(t[i + 1].kenc)
                       /\ BytewiseBefore(t[i].kenc, t[i + 1].kenc)
              /\ buf = <<160 + Len(t)>> \o EntryBytes(t)

----------------------------------------------------------------------------
(* cborx/types.py: the tokens of a stream and their realization *)

\* the context markers, and the Break that ends an indefinite-length context
ContextILByteString   == [t |-> "ContextILByteString", v |-> <<>>]
ContextILTextString   == [t |-> "ContextILTextString", v |-> <<>>]
ContextILArray        == [t |-> "ContextILArray", v |-> <<>>]
ContextILMap          == [t |-> "ContextILMap", v |-> <<>>]
ContextArray(length)  == [t |-> "ContextArray", v |-> length]
ContextMap(length)    == [t |-> "ContextMap", v |-> length]
ContextTag(value)     == [t |-> "ContextTag", v |-> value]
Break                 == [t |-> "Break", v |-> <<>>]

\* isinstance(item, ContextBase)
ContextBase ==
    {"ContextILByteString", "ContextILTextString", "ContextILArray", "ContextILMap",
     "ContextArray", "ContextMap", "ContextTag"}

\* An item_gen is the tokens toks it yields, the index i of the next one and what
\* next(item_gen) raises past the last: the exception that ended the generator, or
\* StopIteration.  A realization is [err, val, i].
RealOk(val, i)  == [err |-> "", val |-> val, i |-> i]
RealFail(e, i)  == [err |-> e, val |-> PyNone, i |-> i]

\* a StopIteration that gets out of a generator expression is a RuntimeError
InGenerator(stop) == IF stop = "StopIteration" THEN "RuntimeError" ELSE stop

RECURSIVE realize_chunks(_, _, _, _)
\* takewhile(lambda item: item is not Break, item_gen), joined; takewhile ends
\* with the generator
realize_chunks(toks, i, stop, acc) ==
    IF i > Len(toks)
    THEN (IF stop = "StopIteration" THEN [err |-> "", items |-> acc, i |-> i]
          ELSE [err |-> stop, items |-> acc, i |-> i])
    ELSE IF toks[i].t = "Break" THEN [err |-> "", items |-> acc, i |-> i + 1]
    ELSE realize_chunks(toks, i + 1, stop, acc \o toks[i].v)

RECURSIVE realize_one(_, _, _, _)
RECURSIVE realize_items(_, _, _, _, _, _, _)
RECURSIVE realize_pairs(_, _, _, _, _, _, _)

\* ContextILArray.realize and ContextArray.realize, the items: realize_one until it
\* returns Break (il), or n times
realize_items(toks, i, immutable, stop, il, n, acc) ==
    LET more(item) ==
            IF item.err # "" THEN [err |-> item.err, items |-> acc, i |-> item.i]
            ELSE IF il /\ item.val.t = "Break" THEN [err |-> "", items |-> acc, i |-> item.i]
            ELSE realize_items(toks, item.i, immutable, stop, il,
                               IF il THEN n ELSE n - 1, Append(acc, item.val))
    IN  IF ~il /\ n = 0 THEN [err |-> "", items |-> acc, i |-> i]
        ELSE more(realize_one(toks, i, immutable, stop))

\* ContextILMap.realize and ContextMap.realize, the pairs: the key is realized
\* immutable, the value as the map is
realize_pairs(toks, i, immutable, stop, il, n, acc) ==
    LET more(key, value) ==
            IF value.err # "" THEN [err |-> value.err, items |-> acc, i |-> value.i]
            \* the mapping under construction takes each pair as it is made
            ELSE IF Unhashable(key.val) THEN [err |-> "TypeError", items |-> acc, i |-> value.i]
            ELSE realize_pairs(toks, value.i, immutable, stop, il,
                               IF il THEN n ELSE n - 1, Append(acc, <<key.val, value.val>>))
        value_of(key) ==
            IF key.err # "" THEN [err |-> key.err, items |-> acc, i |-> key.i]
            ELSE IF il /\ key.val.t = "Break" THEN [err |-> "", items |-> acc, i |-> key.i]
            ELSE more(key, realize_one(toks, key.i, immutable, stop))
    IN  IF ~il /\ n = 0 THEN [err |-> "", items |-> acc, i |-> i]
        ELSE value_of(realize_one(toks, i, TRUE, stop))

\* item.realize(item_gen, immutable) of the context marker item
realize(item, toks, i, immutable, stop) ==
    LET string(cls, r) ==
            IF r.err # "" THEN RealFail(r.err, r.i)
            ELSE RealOk([t |-> cls, v |-> r.items], r.i)
        array(r) ==
            IF r.err # "" THEN RealFail(r.err, r.i)
            ELSE RealOk([t |-> IF immutable THEN "tuple" ELSE "list", v |-> r.items], r.i)
        map(r) ==
            IF r.err # "" THEN RealFail(r.err, r.i)
            ELSE RealOk(PyDict(IF immutable THEN "FrozenDict" ELSE "dict",
                               DictOf(r.items, <<>>)), r.i)
        tag(r) ==
            IF r.err # "" THEN r ELSE RealOk(PyTag(item.v, r.val), r.i)
    IN  IF item.t = "ContextILByteString" THEN string("bytes", realize_chunks(toks, i, stop, <<>>))
        ELSE IF item.t = "ContextILTextString"
             THEN string("str", realize_chunks(toks, i, stop, <<>>))
        ELSE IF item.t = "ContextILArray"
             THEN array(realize_items(toks, i, immutable, InGenerator(stop), TRUE, 0, <<>>))
        ELSE IF item.t = "ContextArray"
             THEN array(realize_items(toks, i, immutable, InGenerator(stop), FALSE,
                                      Clamp(item.v, Len(toks) + 1), <<>>))
        ELSE IF item.t = "ContextILMap"
             THEN map(realize_pairs(toks, i, immutable, InGenerator(stop), TRUE, 0, <<>>))
        ELSE IF item.t = "ContextMap"
             THEN map(realize_pairs(toks, i, immutable, InGenerator(stop), FALSE,
                                    Clamp(item.v, Len(toks) + 1), <<>>))
        ELSE tag(realize_one(toks, i, immutable, stop))

\* realize_one(item_gen, immutable)
realize_one(toks, i, immutable, stop) ==
    IF i > Len(toks) THEN RealFail(stop, i)
    ELSE IF toks[i].t \in ContextBase THEN realize(toks[i], toks, i + 1, immutable, stop)
    ELSE RealOk(toks[i], i + 1)

----------------------------------------------------------------------------
(* cborx/stream_decoder.py: StreamDecoder *)

\* StreamDecoder.__init__ with the default string_errors ('strict'), simple_value
\* and on_error; pos is the read offset of its source
StreamDecoder(check_keys) == [pos |-> 0, check_keys |-> check_keys]

\* What a generator of the decoder does when run to its end: the tokens it yields
\* and the exception that ends it (err, "" when it returns), [err, toks, s]
StreamOk(toks, s)       == [err |-> "", toks |-> toks, s |-> s]
StreamFail(e, toks, s)  == [err |-> e, toks |-> toks, s |-> s]

\* cborx.util.raise_error, the default on_error: the error is raised
raise_error(exc, toks, s) == StreamFail(exc, toks, s)

\* StreamDecoder.decode_length
StreamDecoder_decode_length(b, s, initial_byte) ==
    LET minor == initial_byte % 32
    IN  IF minor < 24 THEN [err |-> "", length |-> NatToDigits(minor), il |-> FALSE, d |-> s]
        ELSE IF minor < 28 THEN
            LET r == read(b, s, Pow2(minor - 24))
            IN  IF r.err # "" THEN [err |-> r.err, length |-> <<>>, il |-> FALSE, d |-> r.d]
                ELSE [err |-> "", length |-> unpack_be_uint(r.bytes), il |-> FALSE, d |-> r.d]
        ELSE IF initial_byte \in {95, 127, 159, 191}
             THEN [err |-> "", length |-> <<>>, il |-> TRUE, d |-> s]
        ELSE [err |-> "BadInitialByteError", length |-> <<>>, il |-> FALSE, d |-> s]

\* StreamDecoder.decode_unsigned_int
StreamDecoder_decode_unsigned_int(b, s, initial_byte) ==
    LET l == StreamDecoder_decode_length(b, s, initial_byte)
    IN  IF l.err # "" THEN StreamFail(l.err, <<>>, l.d)
        ELSE StreamOk(<<PyInt(FALSE, l.length)>>, l.d)

\* StreamDecoder.decode_negative_int
StreamDecoder_decode_negative_int(b, s, initial_byte) ==
    LET l == StreamDecoder_decode_length(b, s, initial_byte)
    IN  IF l.err # "" THEN StreamFail(l.err, <<>>, l.d)
        ELSE StreamOk(<<PyInt(TRUE, DigitsInc(l.length))>>, l.d)

\* self._decode_text, decode_text(string_errors, on_error, raw_utf8): the text, or
\* what on_error makes of a StringEncodingError
StreamDecoder_decode_text(raw_utf8, toks, s) ==
    LET u == Utf8Decode(raw_utf8)
    IN  IF u.ok THEN StreamOk(Append(toks, PyStr(u.cps)), s)
        ELSE raise_error("StringEncodingError", toks, s)

RECURSIVE StreamDecoder_chunks(_, _, _, _)
\* the loop of decode_byte_string (major 2) and decode_text_string (major 3) over
\* the chunks of an indefinite-length string
StreamDecoder_chunks(b, s, major, acc) ==
    LET r == read(b, s, 1)
        initial_byte == r.bytes[1]
        chunk(data) ==
            LET text == StreamDecoder_decode_text(data.bytes, acc, data.d)
            IN  IF data.err # "" THEN StreamFail(data.err, acc, data.d)
                ELSE IF major = 2
                     THEN StreamDecoder_chunks(b, data.d, major, Append(acc, PyBytes(data.bytes)))
                ELSE IF text.err # "" THEN text
                ELSE StreamDecoder_chunks(b, data.d, major, text.toks)
        after_length(l) ==
            IF l.err # "" THEN StreamFail(l.err, acc, l.d)
            ELSE chunk(read_length(b, l.d, l.length))
    IN  IF r.err # "" THEN StreamFail(r.err, acc, r.d)
        ELSE IF major * 32 <= initial_byte /\ initial_byte < major * 32 + 28
             THEN after_length(StreamDecoder_decode_length(b, r.d, initial_byte))
        ELSE IF initial_byte = 255 THEN StreamOk(Append(acc, Break), r.d)
        ELSE StreamFail("BadInitialByteError", acc, r.d)

\* StreamDecoder.decode_byte_string
StreamDecoder_decode_byte_string(b, s, initial_byte) ==
    LET definite(data) ==
            IF data.err # "" THEN StreamFail(data.err, <<>>, data.d)
            ELSE StreamOk(<<PyBytes(data.bytes)>>, data.d)
        after_length(l) ==
            IF l.err # "" THEN StreamFail(l.err, <<>>, l.d)
            ELSE IF l.il THEN StreamDecoder_chunks(b, l.d, 2, <<ContextILByteString>>)
            ELSE definite(read_length(b, l.d, l.length))
    IN  after_length(StreamDecoder_decode_length(b, s, initial_byte))

\* StreamDecoder.decode_text_string
StreamDecoder_decode_text_string(b, s, initial_byte) ==
    LET definite(data) ==
            IF data.err # "" THEN StreamFail(data.err, <<>>, data.d)
            ELSE StreamDecoder_decode_text(data.bytes, <<>>, data.d)
        after_length(l) ==
            IF l.err # "" THEN StreamFail(l.err, <<>>, l.d)
            ELSE IF l.il THEN StreamDecoder_chunks(b, l.d, 3, <<ContextILTextString>>)
            ELSE definite(read_length(b, l.d, l.length))
    IN  after_length(StreamDecoder_decode_length(b, s, initial_byte))

\* StreamDecoder.decode_simple
StreamDecoder_decode_simple(b, s, initial_byte) ==
    LET value == initial_byte % 32
    IN  IF value < 20 THEN StreamOk(<<PySimple(value)>>, s)
        ELSE IF value < 24 THEN
            StreamOk(<<IF value = 20 THEN PyBool(FALSE) ELSE IF value = 21 THEN PyBool(TRUE)
                       ELSE IF value = 22 THEN PyNone ELSE PyUndefined>>, s)
        ELSE IF value = 24 THEN
            LET r == read(b, s, 1)
            IN  IF r.err # "" THEN StreamFail(r.err, <<>>, r.d)
                ELSE IF r.bytes[1] < 32 THEN StreamFail("BadSimpleError", <<>>, r.d)
                ELSE StreamOk(<<PySimple(r.bytes[1])>>, r.d)
        ELSE IF value < 28 THEN
            LET r == read(b, s, Pow2(value - 24))
            IN  IF r.err # "" THEN StreamFail(r.err, <<>>, r.d)
                ELSE StreamOk(<<PyFloat(r.bytes)>>, r.d)
        ELSE IF value = 31 THEN StreamFail("MisplacedBreakError", <<>>, s)
        ELSE StreamFail("BadInitialByteError", <<>>, s)

RECURSIVE StreamDecoder_item(_, _, _)
RECURSIVE StreamDecoder_items(_, _, _, _, _)
RECURSIVE StreamDecoder_pairs(_, _, _, _, _, _)

\* decode_array whose indefinite-length loop ends at the break byte without
\* yielding Break
StreamDecoder_items_silent_break(b, s, il, n, acc) ==
    LET r == read(b, s, 1)
        more(item) ==
            IF item.err # "" THEN StreamFail(item.err, acc \o item.toks, item.s)
            ELSE StreamDecoder_items(b, item.s, il, IF il THEN n ELSE n - 1, acc \o item.toks)
    IN  IF ~il /\ n = 0 THEN StreamOk(acc, s)
        ELSE IF r.err # "" THEN StreamFail(r.err, acc, r.d)
        ELSE IF il /\ r.bytes[1] = 255 THEN StreamOk(acc, r.d)
        ELSE more(StreamDecoder_item(b, r.d, r.bytes[1]))

\* the loops of decode_array: items until the break byte (il), or n items; the
\* tokens an item yielded before it failed have been yielded
StreamDecoder_items(b, s, il, n, acc) ==
    LET r == read(b, s, 1)
        more(item) ==
            IF item.err # "" THEN StreamFail(item.err, acc \o item.toks, item.s)
            ELSE StreamDecoder_items(b, item.s, il, IF il THEN n ELSE n - 1, acc \o item.toks)
    IN  IF ~il /\ n = 0 THEN StreamOk(acc, s)
        ELSE IF r.err # "" THEN StreamFail(r.err, acc, r.d)
        ELSE IF il /\ r.bytes[1] = 255 THEN StreamOk(Append(acc, Break), r.d)
        ELSE more(StreamDecoder_item(b, r.d, r.bytes[1]))

\* StreamDecoder.decode_array
StreamDecoder_decode_array(b, s, initial_byte) ==
    LET after_length(l) ==
            IF l.err # "" THEN StreamFail(l.err, <<>>, l.d)
            ELSE IF l.il THEN StreamDecoder_items(b, l.d, TRUE, 0, <<ContextILArray>>)
            ELSE StreamDecoder_items(b, l.d, FALSE, Clamp(l.length, Len(b) + 1),
                                     <<ContextArray(l.length)>>)
    IN  after_length(StreamDecoder_decode_length(b, s, initial_byte))

\* the loops of decode_map.  With check_keys a key is realized, immutable, from its
\* own generator before anything of it is yielded, looked up in the set keys of
\* those met and yielded as one value; without, the tokens of key and value are
\* yielded as they come
StreamDecoder_pairs(b, s, il, n, keys, acc) ==
    LET r == read(b, s, 1)
        next_pair(ks, value) ==
            IF value.err # "" THEN StreamFail(value.err, acc \o ks \o value.toks, value.s)
            ELSE StreamDecoder_pairs(b, value.s, il, IF il THEN n ELSE n - 1,
                                     IF s.check_keys THEN Append(keys, ks[1]) ELSE keys,
                                     acc \o ks \o value.toks)
        value_of(ks, after_key) ==
            LET r2 == read(b, after_key, 1)
            IN  IF r2.err # "" THEN StreamFail(r2.err, acc \o ks, r2.d)
                ELSE next_pair(ks, StreamDecoder_item(b, r2.d, r2.bytes[1]))
        checked(key, after_key) ==
            IF \E k \in 1..Len(keys) : SameKey(keys[k], key)
            THEN raise_error("DuplicateKeyError", acc, after_key)
            ELSE value_of(<<key>>, after_key)
        key_of(k) ==
            IF s.check_keys
            THEN (IF k.err # "" THEN StreamFail(k.err, acc, k.s)
                  ELSE checked(realize_one(k.toks, 1, TRUE, "StopIteration").val, k.s))
            ELSE (IF k.err # "" THEN StreamFail(k.err, acc \o k.toks, k.s)
                  ELSE value_of(k.toks, k.s))
    IN  IF ~il /\ n = 0 THEN StreamOk(acc, s)
        ELSE IF r.err # "" THEN StreamFail(r.err, acc, r.d)
        ELSE IF il /\ r.bytes[1] = 255 THEN StreamOk(Append(acc, Break), r.d)
        ELSE key_of(StreamDecoder_item(b, r.d, r.bytes[1]))

\* StreamDecoder.decode_map
StreamDecoder_decode_map(b, s, initial_byte) ==
    LET after_length(l) ==
            IF l.err # "" THEN StreamFail(l.err, <<>>, l.d)
            ELSE IF l.il THEN StreamDecoder_pairs(b, l.d, TRUE, 0, <<>>, <<ContextILMap>>)
            ELSE StreamDecoder_pairs(b, l.d, FALSE, Clamp(l.length, Len(b) + 1), <<>>,
                                     <<ContextMap(l.length)>>)
    IN  after_length(StreamDecoder_decode_length(b, s, initial_byte))

\* StreamDecoder.decode_tag
StreamDecoder_decode_tag(b, s, initial_byte) ==
    LET wrapped(l, item) ==
            IF item.err # "" THEN StreamFail(item.err, <<ContextTag(l.length)>> \o item.toks, item.s)
            ELSE StreamOk(<<ContextTag(l.length)>> \o item.toks, item.s)
        first(l, r) ==
            IF r.err # "" THEN StreamFail(r.err, <<ContextTag(l.length)>>, r.d)
            ELSE wrapped(l, StreamDecoder_item(b, r.d, r.bytes[1]))
        after_length(l) ==
            IF l.err # "" THEN StreamFail(l.err, <<>>, l.d)
            ELSE first(l, read(b, l.d, 1))
    IN  after_length(StreamDecoder_decode_length(b, s, initial_byte))

\* self._major_decoders[initial_byte >> 5](initial_byte)
StreamDecoder_item(b, s, initial_byte) ==
    LET major == initial_byte \div 32
    IN  IF major = 0 THEN StreamDecoder_decode_unsigned_int(b, s, initial_byte)
        ELSE IF major = 1 THEN StreamDecoder_decode_negative_int(b, s, initial_byte)
        ELSE IF major = 2 THEN StreamDecoder_decode_byte_string(b, s, initial_byte)
        ELSE IF major = 3 THEN StreamDecoder_decode_text_string(b, s, initial_byte)
        ELSE IF major = 4 THEN StreamDecoder_decode_array(b, s, initial_byte)
        ELSE IF major = 5 THEN StreamDecoder_decode_map(b, s, initial_byte)
        ELSE IF major = 6 THEN StreamDecoder_decode_tag(b, s, initial_byte)
        ELSE StreamDecoder_decode_simple(b, s, initial_byte)

RECURSIVE stream_sequence(_, _, _)
\* stream_sequence with the whole loop body inside the try block: the end of the
\* input inside an item ends the generator too
stream_sequence_wide_try(b, s, acc) ==
    LET r == read(b, s, 1)
        more(item) ==
            IF item.err = "UnexpectedEOFError" THEN StreamOk(acc \o item.toks, item.s)
            ELSE IF item.err # "" THEN StreamFail(item.err, acc \o item.toks, item.s)
            ELSE stream_sequence(b, item.s, acc \o item.toks)
    IN  IF r.err = "UnexpectedEOFError" THEN StreamOk(acc, r.d)
        ELSE more(StreamDecoder_item(b, r.d, r.bytes[1]))

\* StreamDecoder.stream_sequence run to its end: the end of the input where an
\* item would start ends the generator, anything an item raises is raised
stream_sequence(b, s, acc) ==
    LET r == read(b, s, 1)
        more(item) ==
            IF item.err # "" THEN StreamFail(item.err, acc \o item.toks, item.s)
            ELSE stream_sequence(b, item.s, acc \o item.toks)
    IN  IF r.err = "UnexpectedEOFError" THEN StreamOk(acc, r.d)
        ELSE more(StreamDecoder_item(b, r.d, r.bytes[1]))

\* streams_sequence(raw, check_keys=...)
streams_sequence(raw, check_keys) == stream_sequence(raw, StreamDecoder(check_keys), <<>>)

----------------------------------------------------------------------------
(* SpecStream: the token stream of streams_sequence(raw), realized with
   realize_one(item_gen, False) and compared with loads(raw) *)

\* whole items of every kind: integers, strings and their indefinite-length forms,
\* lists, maps, the unassigned tag 16, simple values, a float, maps with a list and
\* with a map as key, maps with a repeated key, and text that is not UTF-8
StreamItems ==
    {<<1>>, <<32>>, <<24, 100>>, <<65, 1>>, <<97, 97>>, <<95, 65, 1, 64, 255>>,
     <<127, 97, 97, 255>>, <<128>>, <<130, 1, 32>>, <<159, 1, 255>>, <<160>>,
     <<161, 1, 1>>, <<191, 1, 1, 255>>, <<208, 1>>, <<244>>, <<248, 255>>, <<249, 60, 0>>,
     <<161, 129, 1, 1>>, <<161, 161, 1, 1, 1>>, <<162, 1, 1, 1, 1>>,
     <<191, 1, 1, 1, 1, 255>>, <<162, 129, 1, 1, 129, 1, 1>>, <<97, 128>>,
     <<127, 97, 97, 97, 128, 255>>}

\* an item x as the element of a list, of an indefinite-length list, as the value and
\* as the key of a map and of an indefinite-length map, and as the content of tag 16
Framed(x) ==
    {<<129>> \o x, <<159>> \o x \o <<255>>, <<161, 1>> \o x, <<161>> \o x \o <<1>>,
     <<191, 1>> \o x \o <<255>>, <<191>> \o x \o <<1, 255>>, <<208>> \o x}

StreamWhole == StreamItems \cup UNION {Framed(x) : x \in StreamItems}

StreamInputs ==
    DecoderInputs
    \cup StreamWhole
    \cup UNION {{SubSeq(x, 1, k) : k \in 0..(Len(x) - 1)} : x \in StreamWhole}
    \cup {x \o rest : x \in StreamItems, rest \in Rests}

InitStream ==
    /\ buf \in StreamInputs
    /\ dec \in {StreamDecoder(check_keys) : check_keys \in BOOLEAN}
    /\ arg = [loads |-> NoOutcome, next |-> "-"]
    /\ out = NoOutcome
    /\ yielded = <<>>
    /\ pc = "start"

\* what next(item_gen) raises once the generator has yielded all of toks
StreamEnd(stream) == IF stream.err = "" THEN "StopIteration" ELSE stream.err

\* item_gen = streams_sequence(buf); realize_one(item_gen, False); next(item_gen).
\* yielded is what the realization took from the generator, arg.next how the
\* next(item_gen) after it ended: with a token, StopIteration or an exception
RealizeStream ==
    /\ pc = "start"
    /\ LET realized(stream, item) ==
               /\ out' = Outcome(item)
               /\ yielded' = SubSeq(stream.toks, 1, item.i - 1)
               /\ arg' = [arg EXCEPT !.next = IF item.err # "" THEN "-"
                                              ELSE IF item.i <= Len(stream.toks) THEN "token"
                                              ELSE StreamEnd(stream)]
           streamed(stream) ==
               realized(stream, realize_one(stream.toks, 1, FALSE, StreamEnd(stream)))
       IN  streamed(streams_sequence(buf, dec.check_keys))
    /\ pc' = "realized"
    /\ UNCHANGED <<buf, dec>>

\* loads(buf) of the same bytes
LoadsStream ==
    /\ pc = "realized"
    /\ arg' = [arg EXCEPT !.loads = Outcome(decode(buf, CBORDecoder(FALSE, TRUE, {})))]
    /\ pc' = "compared"
    /\ UNCHANGED <<buf, dec, out, yielded>>

NextStream == RealizeStream \/ LoadsStream

SpecStream == InitStream /\ [][NextStream]_vars

\* the input has a tag that CBORDecoder has a default handler for
HasDefaultTag(b) ==
    LET among(toks) ==
            \E i \in 1..Len(toks) :
                /\ toks[i].t = "ContextTag"
                /\ Len(toks[i].v) <= 2
                /\ DigitsToNat(toks[i].v) \in DOMAIN default_tag_decoders \cup other_default_tags
    IN  among(streams_sequence(b, FALSE).toks)

\* the stream compared with loads() of an input loads() accepts: the same value, and
\* the stream is exhausted after it
SameValue ==
    (arg.loads.st = "ok" /\ ~HasDefaultTag(buf))
        => (out = arg.loads /\ arg.next = "StopIteration")

----------------------------------------------------------------------------
(* SpecLookup: one CBOREncoder encodes values of registered types and of subclasses of
   them, one after the other *)

\* how many values the encoder is handed
MaxEncodes == 2

\* the types with no entry of their own in default_generators, and the registered
\* class each derives from: a namedtuple class, defaultdict, Counter, a subclass of
\* OrderedDict
Ancestor ==
    [t \in {"namedtuple", "defaultdict", "Counter", "OrderedDictSubclass"} |->
        IF t = "namedtuple" THEN "tuple"
        ELSE IF t = "OrderedDictSubclass" THEN "OrderedDict"
        ELSE "dict"]

LookupItems == {<<>>, <<PyNat(1)>>, <<PyNat(1), PyNat(2)>>, <<PyNat(2), PyNat(1)>>}
LookupPairs ==
    {<<>>, <<<<PyNat(1), PyNat(1)>>>>,
     <<<<PyNat(1), PyNat(2)>>, <<PyNat(2), PyNat(1)>>>>,
     <<<<PyNat(2), PyNat(1)>>, <<PyNat(1), PyNat(2)>>>>}

\* sequences and mappings of every such type, an int, and an object() that nothing
\* encodes
LookupValues ==
    {[t |-> t, v |-> s] : t \in {"tuple", "list", "namedtuple"}, s \in LookupItems}
    \cup {[t |-> t, v |-> s] :
             t \in {"dict", "OrderedDict", "defaultdict", "Counter", "OrderedDictSubclass"},
             s \in LookupPairs}
    \cup {PyNat(1), [t |-> "object", v |-> 0]}

RECURSIVE TypesOf(_)
\* the types of a value and of what it holds
TypesOf(value) ==
    IF value.t \in {"tuple", "list", "namedtuple"}
    THEN {value.t} \cup UNION {TypesOf(value.v[i]) : i \in 1..Len(value.v)}
    ELSE IF value.t \in DictKinds \cup DOMAIN Ancestor
    THEN {value.t} \cup UNION {TypesOf(value.v[i][1]) \cup TypesOf(value.v[i][2]) :
                                  i \in 1..Len(value.v)}
    ELSE {value.t}

InitLookup ==
    /\ arg = PyNone
    /\ buf = <<>>
    /\ dec = default_encoder_options
    /\ out = NoOutcome
    /\ yielded = <<>>
    /\ pc = "start"

\* encoder.encode(value) on the one CBOREncoder dec.  generate_parts leaves the
\* generator of every type it looked up in _parts_generators; a lookup that raises
\* leaves nothing.  yielded lists the types of the values handed over so far
EncodeLookup ==
    /\ pc \in {"start", "encoded"}
    /\ Len(yielded) < MaxEncodes
    /\ \E value \in LookupValues :
          LET e == encode(dec, value)
              looked_up == IF e.err # "" THEN {}
                           ELSE TypesOf(value) \ DOMAIN dec.parts_generators
          IN  /\ arg' = value
              /\ buf' = e.out
              /\ out' = IF e.err = "" THEN Returned(PyNone) ELSE Raised(e.err)
              /\ dec' = [dec EXCEPT !.parts_generators =
                            [t \in looked_up |-> _lookup_encoder(t)] @@ @]
              /\ yielded' = Append(yielded, value.t)
    /\ pc' = "encoded"

NextLookup == EncodeLookup

SpecLookup == InitLookup /\ [][NextLookup]_vars

\* C27: a value of a type with no encoder of its own is encoded exactly as the value
\* of its nearest registered ancestor type with the same content is (a tuple subclass as
\* a tuple, a dict subclass as a dict, an OrderedDict subclass as an OrderedDict, with
\* tag 272 and its entries in insertion order), and the encoder chosen stays in the
\* encoder's cache under the value's own type
C27_NearestAncestorEncoder ==
    (pc = "encoded" /\ arg.t \in DOMAIN Ancestor) =>
        /\ out.st = "ok"
        /\ buf = encode(default_encoder_options, [arg EXCEPT !.t = Ancestor[arg.t]]).out
        /\ arg.t \in DOMAIN dec.parts_generators
        /\ dec.parts_generators[arg.t] = _lookup_encoder(Ancestor[arg.t])

----------------------------------------------------------------------------
(* SpecFrozen: loads() of a two-entry map whose keys are maps *)

\* the most entries of a map that stands as a key
MaxFrozenEntries == 2

\* the entries a key map is made of: the keys 1, 2, -1 and -2, the values 1 and 2
FrozenEntries ==
    {<<k, v>> : k \in {PyNat(1), PyNat(2), PyInt(TRUE, <<1>>), PyInt(TRUE, <<2>>)},
                v \in {PyNat(1), PyNat(2)}}

\* the entries of a key map in the order they stand in the input, no key twice
FrozenMaps ==
    {s \in UNION {[1..n -> FrozenEntries] : n \in 0..MaxFrozenEntries} :
        \A i, j \in 1..Len(s) : i # j => s[i][1] # s[j][1]}

RECURSIVE EntriesBytes(_)
EntriesBytes(s) ==
    IF s = <<>> THEN <<>>
    ELSE encode(default_encoder_options, s[1][1]).out
         \o encode(default_encoder_options, s[1][2]).out \o EntriesBytes(Tail(s))

\* a map with these entries in this order, under tag 272 if ordered
KeyMapBytes(s, ordered) ==
    (IF ordered THEN <<217, 1, 16>> ELSE <<>>) \o <<160 + Len(s)>> \o EntriesBytes(s)

\* the key map as decoded
KeyMapValue(s, ordered) ==
    PyDict(IF ordered THEN "FrozenOrderedDict" ELSE "FrozenDict", s)

InitFrozen ==
    /\ arg \in {[first |-> a, second |-> b, first_ordered |-> oa, second_ordered |-> ob] :
                   a \in FrozenMaps, b \in FrozenMaps, oa \in BOOLEAN, ob \in BOOLEAN}
    /\ buf = <<162>> \o KeyMapBytes(arg.first, arg.first_ordered) \o <<0>>
                     \o KeyMapBytes(arg.second, arg.second_ordered) \o <<0>>
    /\ dec = CBORDecoder(FALSE, TRUE, {})
    /\ out = NoOutcome
    /\ yielded = <<>>
    /\ pc = "start"

\* loads(buf)
LoadsFrozen ==
    /\ pc = "start"
    /\ LET r == decode(buf, dec)
       IN  /\ out' = Outcome(r)
           /\ dec' = r.d
    /\ pc' = "decoded"
    /\ UNCHANGED <<arg, buf, yielded>>

NextFrozen == LoadsFrozen

SpecFrozen == InitFrozen /\ [][NextFrozen]_vars

\* the two maps have the same key-value pairs, in whatever order
SameEntries(a, b) == {a[i] : i \in 1..Len(a)} = {b[i] : i \in 1..Len(b)}

\* C28: two FrozenDict or FrozenOrderedDict keys with the same key-value pairs, in
\* whatever order they were inserted, are equal and have equal hashes, and the map
\* that has both as keys is refused with DuplicateKeyError
C28_FrozenDictHash ==
    (pc = "decoded" /\ SameEntries(arg.first, arg.second)) =>
        LET a == KeyMapValue(arg.first, arg.first_ordered)
            b == KeyMapValue(arg.second, arg.second_ordered)
        IN  /\ PyEq(a, b)
            /\ HashOf(a) = HashOf(b)
            /\ out.st = "DuplicateKeyError"

----------------------------------------------------------------------------
(* SpecTokens: the generator streams_sequence(raw) returns, resumed until it ends *)

\* whole items, items nested to two levels, two items one after the other, and
\* every proper prefix of an item
TokenInputs ==
    StreamWhole
    \cup UNION {Framed(x) : x \in UNION {Framed(y) : y \in StreamItems}}
    \cup {x \o y : x \in StreamItems, y \in StreamItems}
    \cup UNION {{SubSeq(x, 1, k) : k \in 0..(Len(x) - 1)} : x \in StreamWhole}

\* item_gen = streams_sequence(buf, check_keys=...).  arg is the generator: the run
\* it makes when resumed until it ends, its tokens and the exception that ends it;
\* yielded are the tokens it has yielded
InitTokens ==
    /\ buf \in TokenInputs
    /\ dec \in {StreamDecoder(check_keys) : check_keys \in BOOLEAN}
    /\ arg = streams_sequence(buf, dec.check_keys)
    /\ out = NoOutcome
    /\ yielded = <<>>
    /\ pc = "start"

\* next(item_gen): the generator runs to its next yield, or to its end
NextToken ==
    /\ pc \in {"start", "streaming"}
    /\ IF Len(yielded) < Len(arg.toks)
       THEN /\ yielded' = Append(yielded, arg.toks[Len(yielded) + 1])
            /\ pc' = "streaming"
            /\ UNCHANGED <<out, dec>>
       ELSE /\ out' = Raised(StreamEnd(arg))
            /\ dec' = arg.s
            /\ pc' = "streamed"
            /\ UNCHANGED yielded
    /\ UNCHANGED <<arg, buf>>

NextTokens == NextToken

\* whoever iterates over the generator keeps calling next() until it ends
SpecTokens == InitTokens /\ [][NextTokens]_vars /\ WF_vars(NextToken)

\* The contexts open after a run of tokens, innermost last: kind, and left, the
\* items a definite context still waits for (for an indefinite-length map, 1 when
\* a key waits for its value).  NotNested stands for a run that is not well nested
NotNested == <<[kind |-> "NotNested", left |-> 0]>>

RECURSIVE ItemCompleted(_)
\* an item is complete inside the innermost open context; a definite context that
\* has all its items is itself a complete item
ItemCompleted(stack) ==
    IF stack = <<>> THEN <<>>
    ELSE LET top == stack[Len(stack)]
             rest == SubSeq(stack, 1, Len(stack) - 1)
         IN  IF top.kind \in {"ContextArray", "ContextMap", "ContextTag"}
             THEN (IF top.left = 1 THEN ItemCompleted(rest)
                   ELSE Append(rest, [top EXCEPT !.left = @ - 1]))
             ELSE IF top.kind = "ContextILMap" THEN Append(rest, [top EXCEPT !.left = 1 - @])
             ELSE stack

\* the open contexts after one more token; cap is more than any context can hold
AfterToken(stack, tok, cap) ==
    LET top == stack[Len(stack)]
        in_string == stack # <<>> /\ top.kind \in {"ContextILByteString", "ContextILTextString"}
    IN  IF stack = NotNested THEN NotNested
        ELSE IF tok.t = "Break" THEN
            (IF /\ stack # <<>>
                /\ \/ top.kind \in {"ContextILByteString", "ContextILTextString", "ContextILArray"}
                   \/ top.kind = "ContextILMap" /\ top.left = 0
             THEN ItemCompleted(SubSeq(stack, 1, Len(stack) - 1))
             ELSE NotNested)
        ELSE IF in_string THEN
            (IF tok.t = (IF top.kind = "ContextILByteString" THEN "bytes" ELSE "str")
             THEN stack ELSE NotNested)
        ELSE IF tok.t = "ContextArray" THEN
            (IF tok.v = <<>> THEN ItemCompleted(stack)
             ELSE Append(stack, [kind |-> tok.t, left |-> Clamp(tok.v, cap)]))
        ELSE IF tok.t = "ContextMap" THEN
            (IF tok.v = <<>> THEN ItemCompleted(stack)
             ELSE Append(stack, [kind |-> tok.t, left |-> 2 * Clamp(tok.v, cap)]))
        ELSE IF tok.t = "ContextTag" THEN Append(stack, [kind |-> tok.t, left |-> 1])
        ELSE IF tok.t \in ContextBase THEN Append(stack, [kind |-> tok.t, left |-> 0])
        ELSE ItemCompleted(stack)

RECURSIVE OpenContexts(_, _, _)
OpenContexts(toks, stack, cap) ==
    IF toks = <<>> THEN stack
    ELSE OpenContexts(Tail(toks), AfterToken(stack, toks[1], cap), cap)

\* the contexts the tokens yielded so far leave open
Nesting == OpenContexts(yielded, <<>>, Len(buf) + 1)

\* the input is well-formed: the stream raises no IllFormedError
WellFormedInput ==
    arg.err \notin {"BadInitialByteError", "BadSimpleError", "MisplacedBreakError",
                    "UnexpectedEOFError"}

\* the input is well-formed and valid: the stream ends without an exception
ValidInput == arg.err = ""

----------------------------------------------------------------------------
(* SpecWrapped: loads() of a list or map marked shared (tag 28) through other tags,
   with references (tag 29) to it inside its contents and after it *)

\* what stands between tag 28 and the container: nothing, tag 6 (which has no
\* handler) once or twice, or tag 272
WrapKinds == {"none", "tag", "tagtag", "ordered"}

WrapBytes(wrap) ==
    CASE wrap = "none" -> <<>>
      [] wrap = "tag" -> <<198>>
      [] wrap = "tagtag" -> <<198, 198>>
      [] wrap = "ordered" -> <<217, 1, 16>>

\* tag 28, the tags in between and the container
WrappedBytes(a) == <<216, 28>> \o WrapBytes(a.wrap) \o Tail(Tail(SharedBytes(a)))

\* the item marked shared is the top-level item, or an element of a list: preceded
\* by the element 1 marked shared before it (own = 1), followed by a reference to
\* its ID (after)
InitWrapped ==
    /\ arg \in {[wrap |-> wrap, map |-> map, il |-> FALSE, elems |-> elems, own |-> own,
                 after |-> after] :
                    wrap \in WrapKinds, map \in BOOLEAN, own \in {0, 1}, after \in BOOLEAN,
                    elems \in UNION {[1..n -> ElemKinds] : n \in 0..MaxElems}}
    /\ buf = (IF arg.own = 0 /\ ~arg.after THEN <<>>
              ELSE <<129 + arg.own + (IF arg.after THEN 1 ELSE 0)>>)
             \o (IF arg.own = 0 THEN <<>> ELSE <<216, 28, 1>>)
             \o WrappedBytes(arg)
             \o (IF arg.after THEN RefBytes(arg.own) ELSE <<>>)
    /\ dec = CBORDecoder(FALSE, TRUE, {})
    /\ out = NoOutcome
    /\ yielded = <<>>
    /\ pc = "start"

SpecWrapped == InitWrapped /\ [][NextShared]_vars

\* a reference to the item's ID is resolved while the item is decoded
ResolvedInside(a) == \E i \in 1..Len(a.elems) : a.elems[i] # "one"

\* the object a reference resolved inside the item is, PyRef(id), is the object the
\* table of shared values holds under id once decode_shared has returned
IsSharedObject(d, id) == "id" \in DOMAIN d.shared_ids[id] /\ d.shared_ids[id].id = id

\* the item decoded from the bytes of the tag 28 alone; what decode_shared returned
TaggedItem(value, a) ==
    IF a.own = 0 /\ ~a.after THEN value ELSE value.v[a.own + 1]

\* C30: the k-th tag 28 of the input gets ID k-1, and a reference to the ID of an
\* item marked shared, resolved inside the item or after it, is the very object
\* decode_shared returned for that ID and put in the table, not a container nested
\* in it that took up the pending ID
C30_SharedIdDenotesTaggedItem ==
    (pc = "decoded" /\ out.st = "ok") =>
        /\ dec.shared_id = arg.own + 1
        /\ DOMAIN dec.shared_ids = 0..arg.own
        /\ arg.own = 1 => dec.shared_ids[0] = PyNat(1)
        /\ dec.shared_ids[arg.own] = TaggedItem(out.val, arg)
        /\ ResolvedInside(arg) => IsSharedObject(dec, arg.own)
        /\ arg.after => out.val.v[Len(out.val.v)] = Alias(dec.shared_ids[arg.own])

====
